---- MODULE Spec2Model ----
(***************************************************************************)
(* A model of Teensy-Loader.js: the Intel HEX decoder, the firmware block  *)
(* builder and the HID block transfer (TeensyFlasher.flashFirmware).       *)
(***************************************************************************)
EXTENDS Integers, Sequences, FiniteSets, TLC

VARIABLES
    \* ---- TeensyFlasher.flashFirmware: one call and the HID device it drives
    mainBlocks,     \* blocksObj.mainBlocks
    loaderBlocks,   \* blocksObj.loaderBlocks
    pc,             \* position of the call: "idle","open","begin","send","retry","pause","close","closing","done"
    stage,          \* which report the call is at: "main", "loader", "final"
    needed,         \* sendBlocks: the filtered list of the running sendBlocks call
    idx,            \* sendBlocks: 1-based position in needed of the block being sent
    attempt,        \* sendReportWithRetries: the loop counter (failed attempts whose sleep is over)
    sentCount,      \* sendBlocks: local counter of the running sendBlocks call
    report,         \* sendBlocks: the report buffer of the running sendBlocks call
    doneCount,      \* flashFirmware: blocks reported to the progress callback so far
    totalNeeded,    \* flashFirmware: countNeeded(main) + countNeeded(loader)
    delivered,      \* device: the reports whose sendReport resolved, in order
    progress,       \* the values progressCb received, as [num, den] = num / den
    pauses,         \* the argument of each sleep that follows a transmitted block
    opened,         \* device: the handle is open
    closeCalls,     \* device: number of device.close() invocations
    closeRejected,  \* device: the close() promise rejected
    pending,        \* the completion (normal or thrown) the try block ended with
    outcome,        \* how the flashFirmware promise settled
    otherOutcome,   \* how a second flashFirmware call on the same handle settled
    \* ---- FirmwareFile: one file and the result of buildBlocks()
    fileData,       \* this.fileData, the bytes of the file
    fileName,       \* the name given to the constructor
    productId,      \* this.productId (0 when none was given)
    built,          \* what buildBlocks() returned or threw
    \* ---- SerialPortManager: one manager, the ports and streams it drives
    serialPort,     \* this.serialPort: 0 for null, else the port
    serialReader,   \* this.serialReader: 0 for null, else the reader
    incompleteLine, \* this.incompleteLine
    onData,         \* this.onData is set
    ports,          \* each port: its state and the reader whose pipe locks its readable
    readers,        \* each reader made by getReader(): its stream, the port piped into
                    \* it, and the number of read loops whose read() on it is pending
    openCalls,      \* each openSerialPort call in progress: where it waits
    closeCall,      \* the closeSerialPort call in progress: where it waits
    openResult,     \* how the last openSerialPort call of each caller ended
    closeResult,    \* how the last closeSerialPort call ended
    received,       \* the lines this.onData was called with since the buffer was last cleared
    fedText,        \* the chunks given to processSerialData since then, concatenated
    unheard,        \* a complete line was framed since then while this.onData was not set
    feeds,          \* number of processSerialData calls so far
    calls,          \* number of openSerialPort and closeSerialPort calls so far
    lastCall,       \* the call made last: "open" or "close", "none" before the first
    closedQuiet,    \* closeSerialPort has returned; since then no openSerialPort has
                    \* succeeded and the caller has not called processSerialData
    lateLines       \* number of this.onData calls a read loop made while closedQuiet

flashVars == <<mainBlocks, loaderBlocks, pc, stage, needed, idx, attempt, sentCount,
               report, doneCount, totalNeeded, delivered, progress, pauses, opened,
               closeCalls, closeRejected, pending, outcome, otherOutcome>>

buildVars == <<fileData, fileName, productId, built>>

serialVars == <<serialPort, serialReader, incompleteLine, onData, ports, readers,
                openCalls, closeCall, openResult, closeResult, received, fedText,
                unheard, feeds, calls, lastCall, closedQuiet, lateLines>>

vars == <<flashVars, buildVars, serialVars>>

----------------------------------------------------------------------------
(* Bounds of the model *)

MaxMain == 4      \* longest main block list tried
MaxLoader == 2    \* longest loader block list tried
MaxBlocks == 6    \* most blocks of the two lists of one call together
MaxPages == 2     \* longest raw-binary page list tried
MaxRecLen == 3    \* longest payload of the single records tried
MaxChunks == 3    \* most pieces a dual-segment text is made of
MaxSession == 3   \* most lines of the single sessions tried
MaxFeeds == 2     \* most chunks the serial streams deliver
MaxCalls == 3    \* most openSerialPort and closeSerialPort calls made

----------------------------------------------------------------------------
(* Program constants *)

PAGE_SIZE == 1024
REPORT_SIZE == PAGE_SIZE + 64
maxRetriesOffByOne == 5 + 1
maxRetries == 5

----------------------------------------------------------------------------
(* Blocks.  An addressed block is { address, data }.  A raw-binary page is *)
(* a bare Uint8Array: it has no .address and no .data property; the model  *)
(* marks it hasFields = FALSE and keeps its bytes in data.                 *)

BlankData == [i \in 1..PAGE_SIZE |-> 255]
NonBlankData(k) == [i \in 1..PAGE_SIZE |-> IF i = PAGE_SIZE THEN k % 255 ELSE 255]

AddressedBlock(a, d) == [hasFields |-> TRUE, address |-> a, data |-> d]
RawPage(d) == [hasFields |-> FALSE, address |-> 0, data |-> d]

----------------------------------------------------------------------------
(* JavaScript values.  A number is an integer or NaN.  NaN stands for the  *)
(* NaN that parseInt returns; it is apart from every number the decoder    *)
(* computes (fields of -0xFFF..0xFFFF, their sums, block numbers and       *)
(* addresses from 0 on).  The -0 that parseInt gives for "-0" is 0: the    *)
(* decoder adds it, masks it, compares it with === and uses it as a Map    *)
(* key, which all take -0 as 0.                                            *)

NaN == 0 - 2147483647

\* a + b
jsAdd(a, b) == IF a = NaN \/ b = NaN THEN NaN ELSE a + b

\* v & 0xff (ToInt32(NaN) is 0)
and255(v) == IF v = NaN THEN 0 ELSE v % 256

\* (v >> 8) & 0xff
shr8and255(v) == IF v = NaN THEN 0 ELSE (v \div 256) % 256

\* highAddr << 4, for the value of a field of 4 characters (-0xFFF..0xFFFF)
shl4(v) == IF v = NaN THEN 0 ELSE v * 16

\* upper16 << 16, for the value of a field of 4 characters: the shift works
\* on 32-bit signed integers, so a value of 0x8000 or more gives a negative
\* result
shl16(v) ==
    IF v = NaN THEN 0
    ELSE IF v >= 32768 THEN (v - 65536) * 65536
    ELSE v * 65536

----------------------------------------------------------------------------
(* Strings.  A string of the program is the sequence of its UTF-16 code    *)
(* units.  The file name alone is kept as a TLA+ string: the names of the  *)
(* model are ASCII.                                                        *)

UpperDigits == "0123456789ABCDEF"

charAt(s, i) == SubSeq(s, i, i)

indexIn(table, c) ==
    IF \E i \in 1..Len(table) : charAt(table, i) = c
    THEN CHOOSE i \in 1..Len(table) : charAt(table, i) = c
    ELSE 0

\* The ASCII characters of codes 32..95 and of codes 97..126
PrintableLow == " !\"#$%&'()*+,-./0123456789:;<=>?@ABCDEFGHIJKLMNOPQRSTUVWXYZ[\\]^_"
PrintableHigh == "abcdefghijklmnopqrstuvwxyz{|}~"

\* the code unit of an ASCII character
charCodes ==
    [c \in {"\n", "\r", "\t", "\f"}
            \cup { charAt(PrintableLow, i) : i \in 1..Len(PrintableLow) }
            \cup { charAt(PrintableHigh, i) : i \in 1..Len(PrintableHigh) } |->
        IF c = "\n" THEN 10
        ELSE IF c = "\r" THEN 13
        ELSE IF c = "\t" THEN 9
        ELSE IF c = "\f" THEN 12
        ELSE IF indexIn(PrintableLow, c) > 0 THEN indexIn(PrintableLow, c) + 31
        ELSE indexIn(PrintableHigh, c) + 96]

\* an ASCII string as the program holds it: its code units, which are also
\* the bytes of its UTF-8 encoding
units(s) == [i \in 1..Len(s) |-> charCodes[charAt(s, i)]]

\* the value of a base-16 digit (0-9, A-F, a-f), NaN for any other code unit
digitValue(c) ==
    IF c >= 48 /\ c <= 57 THEN c - 48
    ELSE IF c >= 65 /\ c <= 70 THEN c - 55
    ELSE IF c >= 97 /\ c <= 102 THEN c - 87
    ELSE NaN

\* white space of String.prototype.trim, of parseInt and of \s: the WhiteSpace
\* and LineTerminator code points (TAB, LF, VT, FF, CR, SP, NBSP, U+1680,
\* U+2000..U+200A, U+2028, U+2029, U+202F, U+205F, U+3000, U+FEFF)
isSpace(c) ==
    \/ c \in {9, 10, 11, 12, 13, 32, 160, 5760, 8232, 8233, 8239, 8287, 12288, 65279}
    \/ (c >= 8192 /\ c <= 8202)

\* a line terminator for ^ and $ of a multiline regular expression
\* (LF, CR, U+2028, U+2029)
isLineTerminator(c) == c \in {10, 13, 8232, 8233}

\* s.slice(from, to) with 0-based from and exclusive to, both within 0..
slice(s, from, to) == SubSeq(s, from + 1, IF to > Len(s) THEN Len(s) ELSE to)

sliceFrom(s, from) == SubSeq(s, from + 1, Len(s))

RECURSIVE trimStart(_)
trimStart(s) ==
    IF Len(s) > 0 /\ isSpace(s[1]) THEN trimStart(SubSeq(s, 2, Len(s))) ELSE s

RECURSIVE trimEnd(_)
trimEnd(s) ==
    IF Len(s) > 0 /\ isSpace(s[Len(s)]) THEN trimEnd(SubSeq(s, 1, Len(s) - 1)) ELSE s

trim(s) == trimEnd(trimStart(s))

\* name.toLowerCase() of a file name
RECURSIVE toLowerCase(_)
toLowerCase(s) ==
    IF Len(s) = 0 THEN ""
    ELSE LET c == charAt(s, 1)
             k == indexIn("ABCDEFGHIJKLMNOPQRSTUVWXYZ", c)
         IN  (IF k > 0 THEN charAt("abcdefghijklmnopqrstuvwxyz", k) ELSE c) \o toLowerCase(SubSeq(s, 2, Len(s)))

endsWith(s, suffix) ==
    Len(s) >= Len(suffix) /\ SubSeq(s, Len(s) - Len(suffix) + 1, Len(s)) = suffix

startsWith(s, prefix) == Len(s) >= Len(prefix) /\ SubSeq(s, 1, Len(prefix)) = prefix

\* the digits of parseInt: the longest prefix of base-16 digits, as a number
\* (the strings the decoder gives to parseInt have at most 4 code units)
RECURSIVE digitsValue(_, _, _)
digitsValue(s, i, acc) ==
    IF i > Len(s) \/ digitValue(s[i]) = NaN THEN acc
    ELSE digitsValue(s, i + 1, (IF acc = NaN THEN 0 ELSE acc * 16) + digitValue(s[i]))

\* a 0x or 0X prefix is skipped
skipPrefix(t) ==
    IF Len(t) >= 2 /\ t[1] = 48 /\ t[2] \in {120, 88} THEN SubSeq(t, 3, Len(t)) ELSE t

\* parseInt(s, 16): leading white space is skipped, then a sign '+' or '-',
\* then a 0x or 0X prefix; the longest run of digits is the value, negated
\* after '-', and NaN when there is no digit
parseInt16(s) ==
    LET t == trimStart(s)
        signed == Len(t) > 0 /\ t[1] \in {43, 45}
        v == digitsValue(skipPrefix(IF signed THEN SubSeq(t, 2, Len(t)) ELSE t), 1, NaN)
    IN  IF v = NaN THEN NaN
        ELSE IF signed /\ t[1] = 45 THEN 0 - v
        ELSE v

\* hexText.split(/\r?\n/): the pieces between the separators \n and \r\n
RECURSIVE splitLines(_, _, _)
splitLines(text, from, i) ==
    IF i > Len(text) THEN <<SubSeq(text, from, Len(text))>>
    ELSE IF text[i] = 10
    THEN LET last == IF i - 1 >= from /\ text[i - 1] = 13 THEN i - 2 ELSE i - 1
         IN  <<SubSeq(text, from, last)>> \o splitLines(text, i + 1, i + 1)
    ELSE splitLines(text, from, i + 1)

----------------------------------------------------------------------------
(* parseSingleHexSession *)

\* ensureBlock: the map with a block of 0xFF under blockNum when it has none
ensureBlock(blockMap, blockNum) ==
    IF blockNum \in DOMAIN blockMap THEN blockMap
    ELSE (blockNum :> [i \in 1..PAGE_SIZE |-> 255]) @@ blockMap

\* block.set(dataBytes.subarray(dataIndex, dataIndex + toCopy), inBlock)
blockSet(block, dataBytes, dataIndex, toCopy, inBlock) ==
    [i \in 1..PAGE_SIZE |->
        IF i - 1 >= inBlock /\ i - 1 < inBlock + toCopy
        THEN dataBytes[dataIndex + (i - 1 - inBlock) + 1]
        ELSE block[i]]

\* the while loop that places dataBytes from addr32 on
RECURSIVE placeData(_, _, _, _)
placeData(blockMap, addr32, dataBytes, dataIndex) ==
    IF dataIndex >= Len(dataBytes) THEN blockMap
    ELSE LET blockNum == addr32 \div PAGE_SIZE
             inBlock == addr32 % PAGE_SIZE
             ensured == ensureBlock(blockMap, blockNum)
             space == PAGE_SIZE - inBlock
             rest == Len(dataBytes) - dataIndex
             toCopy == IF space < rest THEN space ELSE rest
             written == [ensured EXCEPT ![blockNum] =
                            blockSet(ensured[blockNum], dataBytes, dataIndex, toCopy, inBlock)]
         IN  placeData(written, addr32 + toCopy, dataBytes, dataIndex + toCopy)

\* the byte pairs from cursor on: for (i < length) parseInt(line.slice(cursor, cursor + 2), 16);
\* the loop does not run when length is NaN or negative
byteValues(line, cursor, length) ==
    [i \in 1..(IF length = NaN THEN 0 ELSE length) |->
        parseInt16(slice(line, cursor + 2 * (i - 1), cursor + 2 * i))]

RECURSIVE sumValues(_, _, _)
sumValues(vals, i, acc) ==
    IF i > Len(vals) THEN acc ELSE sumValues(vals, i + 1, jsAdd(acc, vals[i]))

\* ((calcSum & 0xff) + checkSum) & 0xff !== 0
checksumFails(calcSum, checkSum) == and255(jsAdd(and255(calcSum), checkSum)) # 0

FormatError(lineNum, what) ==
    [status |-> "error", line |-> lineNum + 1, what |-> what, baseAddress |-> 0,
     blockMap |-> <<>>]

\* new Uint8Array(length) with a negative length throws a RangeError, which
\* names no line
RangeError ==
    [status |-> "error", line |-> 0, what |-> "RangeError", baseAddress |-> 0,
     blockMap |-> <<>>]

\* One iteration of lineLoop on the decoder state st (status "run") and the
\* raw line at 0-based index lineNum; the result has status "run" (next
\* line), "eof" (return at an EOF record) or "error" (throw).  parseLine trims
\* the line, parseTrimmed and parseHeader read the fields that every record
\* has, parseRecord is the part of the iteration after the header.
\* a record below the offset placed from address 0 on
placeRecordBelow(st, address, dataBytes, offset) ==
    IF address = NaN
    THEN [st EXCEPT !.blockMap =
               IF Len(dataBytes) > 0 THEN ensureBlock(st.blockMap, NaN) ELSE st.blockMap]
    ELSE [st EXCEPT !.blockMap =
               placeData(st.blockMap,
                         IF st.baseAddress < offset - address THEN 0
                         ELSE (st.baseAddress - offset) + address,
                         dataBytes, 0)]

\* the data of a verified Data record: addr32 = baseAddress + address - offset,
\* nothing when addr32 < 0 (baseAddress + address < offset), else the bytes
\* into the blocks
placeRecord(st, address, dataBytes, offset) ==
    IF address = NaN
    THEN \* NaN address: the loop runs once on block NaN and copies nothing
         [st EXCEPT !.blockMap =
               IF Len(dataBytes) > 0 THEN ensureBlock(st.blockMap, NaN) ELSE st.blockMap]
    ELSE IF st.baseAddress < offset - address
    THEN st
    ELSE [st EXCEPT !.blockMap =
               placeData(st.blockMap, (st.baseAddress - offset) + address, dataBytes, 0)]

parseRecord(st, line, length, address, recordType, lineNum, offset) ==
    LET headSum == jsAdd(jsAdd(jsAdd(length, shr8and255(address)), and255(address)), recordType)
        bytes == byteValues(line, 8, length)
        bytesSum == sumValues(bytes, 1, headSum)
        n == IF length = NaN \/ length < 0 THEN 0 ELSE length
        bytesCheck == parseInt16(slice(line, 8 + 2 * n, 10 + 2 * n))
        word == parseInt16(slice(line, 8, 12))
        wordSum == jsAdd(headSum, shr8and255(word) + and255(word))
        wordCheck == parseInt16(slice(line, 12, 14))
    IN
    IF length = NaN \/ Len(line) # 10 + length * 2
    THEN FormatError(lineNum, "length mismatch")
    ELSE IF recordType = 0
    THEN IF length < 0
         THEN RangeError
         ELSE IF checksumFails(bytesSum, bytesCheck)
         THEN FormatError(lineNum, "checksum, data record")
         ELSE placeRecord(st, address, [i \in 1..n |-> and255(bytes[i])], offset)
    ELSE IF recordType = 1
    THEN IF checksumFails(bytesSum, bytesCheck)
         THEN FormatError(lineNum, "checksum, EOF")
         ELSE [st EXCEPT !.status = "eof"]
    ELSE IF recordType = 2
    THEN IF checksumFails(wordSum, wordCheck)
         THEN FormatError(lineNum, "checksum")
         ELSE [st EXCEPT !.baseAddress = shl4(word)]
    ELSE IF recordType = 4
    THEN IF checksumFails(wordSum, wordCheck)
         THEN FormatError(lineNum, "checksum")
         ELSE [st EXCEPT !.baseAddress = shl16(word)]
    ELSE IF checksumFails(bytesSum, bytesCheck)
         THEN FormatError(lineNum, "checksum")
         ELSE st

\* the header fields of the record after the ':': length, address, recordType
parseHeader(st, line, lineNum, offset) ==
    parseRecord(st, line, parseInt16(slice(line, 0, 2)), parseInt16(slice(line, 2, 6)),
                parseInt16(slice(line, 6, 8)), lineNum, offset)

\* the trimmed line: skipped when empty, refused without the leading ':'
parseTrimmed(st, trimmed, lineNum, offset) ==
    IF Len(trimmed) = 0 THEN st
    ELSE IF ~startsWith(trimmed, units(":")) THEN FormatError(lineNum, "missing ':'")
    ELSE parseHeader(st, sliceFrom(trimmed, 1), lineNum, offset)

parseLine(st, rawLine, lineNum, offset) == parseTrimmed(st, trim(rawLine), lineNum, offset)

\* the decoder state before the first line: baseAddress = 0, an empty blockMap
startState ==
    [status |-> "run", line |-> 0, what |-> "", baseAddress |-> 0, blockMap |-> <<>>]

\* for (lineNum < lines.length): the loop ends at the end of the lines, at
\* the return of an EOF record and at a throw
RECURSIVE lineLoop(_, _, _, _)
lineLoop(st, lines, lineNum, offset) ==
    IF lineNum >= Len(lines) \/ st.status # "run" THEN st
    ELSE lineLoop(parseLine(st, lines[lineNum + 1], lineNum, offset), lines, lineNum + 1, offset)

\* { address: offset + blockNum * blockSize, data: blockData }; the address
\* of the block under the key NaN is NaN
blockEntry(blockMap, blockNum, offset) ==
    [hasFields |-> TRUE,
     address |-> IF blockNum = NaN THEN NaN ELSE offset + blockNum * PAGE_SIZE,
     data |-> blockMap[blockNum]]

\* the entries of the keys nums, none of them NaN, by ascending address
RECURSIVE ascendingBlocks(_, _, _)
ascendingBlocks(blockMap, nums, offset) ==
    IF nums = {} THEN <<>>
    ELSE LET lo == CHOOSE x \in nums : \A y \in nums : x <= y
         IN  <<blockEntry(blockMap, lo, offset)>>
             \o ascendingBlocks(blockMap, nums \ {lo}, offset)

\* the orders the keys nums can be left in
keyOrders(nums) ==
    { q \in [1..Cardinality(nums) -> nums] : \A i, j \in DOMAIN q : q[i] = q[j] => i = j }

\* result.sort((a, b) => a.address - b.address) over the entries of the map:
\* the lists the sort can leave.  With numbers as addresses the comparator is
\* consistent and the list is ascending.  With an entry of address NaN the
\* comparator gives NaN against it, it is not a consistent comparator and
\* the order of the entries is implementation-defined: any order.
sortedBlocks(blockMap, nums, offset) ==
    IF NaN \in nums
    THEN { [i \in DOMAIN q |-> blockEntry(blockMap, q[i], offset)] : q \in keyOrders(nums) }
    ELSE { ascendingBlocks(blockMap, nums, offset) }

\* the blocks numbered from 0, the offset left out
finalizeBlocksFromZero(blockMap, offset) == sortedBlocks(blockMap, DOMAIN blockMap, 0)

\* the lists finalizeBlocks can return
finalizeBlocks(blockMap, offset) == sortedBlocks(blockMap, DOMAIN blockMap, offset)

\* what the session can end with: the error thrown, or a block list
sessionResult(st, offset) ==
    IF st.status = "error"
    THEN { [status |-> "error", line |-> st.line, what |-> st.what, blocks |-> <<>>] }
    ELSE { [status |-> "ok", line |-> 0, what |-> "", blocks |-> b] :
             b \in finalizeBlocks(st.blockMap, offset) }

\* parseSingleHexSession(hexText, 1024, offset): the results it can have
parseSingleHexSession(hexText, offset) ==
    sessionResult(lineLoop(startState, splitLines(hexText, 1, 1), 0, offset), offset)

----------------------------------------------------------------------------
(* parseEhexFull and FirmwareFile.buildBlocks *)

\* the number of bytes from index i on, at most need, that continue a UTF-8
\* sequence: the first within lower..upper, the later ones within 0x80..0xBF
RECURSIVE continuation(_, _, _, _, _)
continuation(bytes, i, need, lower, upper) ==
    IF need = 0 \/ i > Len(bytes) \/ bytes[i] < lower \/ bytes[i] > upper THEN 0
    ELSE 1 + continuation(bytes, i + 1, need - 1, 128, 191)

\* what the UTF-8 decoder of TextDecoder makes of the bytes from index i on
\* when it is between two sequences there: the bytes it takes and the code
\* units it gives.  A byte below 0x80 is its character; a lead byte 0xC2..0xF4
\* with its 1, 2 or 3 continuation bytes is one code point (a surrogate pair
\* above 0xFFFF); a byte that starts no sequence is U+FFFD; a sequence cut
\* short by a byte that does not continue it, or by the end, is U+FFFD, and
\* the byte that cut it short is not taken.
sequenceAt(bytes, i) ==
    LET b == bytes[i]
        need == IF b < 128 THEN 0
                ELSE IF b >= 194 /\ b <= 223 THEN 1
                ELSE IF b >= 224 /\ b <= 239 THEN 2
                ELSE IF b >= 240 /\ b <= 244 THEN 3
                ELSE 0 - 1
        lower == IF b = 224 THEN 160 ELSE IF b = 240 THEN 144 ELSE 128
        upper == IF b = 237 THEN 159 ELSE IF b = 244 THEN 143 ELSE 191
        got == continuation(bytes, i + 1, need, lower, upper)
        cp == IF need = 1 THEN (b - 192) * 64 + (bytes[i + 1] - 128)
              ELSE IF need = 2
              THEN (b - 224) * 4096 + (bytes[i + 1] - 128) * 64 + (bytes[i + 2] - 128)
              ELSE (b - 240) * 262144 + (bytes[i + 1] - 128) * 4096
                      + (bytes[i + 2] - 128) * 64 + (bytes[i + 3] - 128)
    IN  IF need = 0 THEN [taken |-> 1, units |-> <<b>>]
        ELSE IF need < 0 THEN [taken |-> 1, units |-> <<65533>>]
        ELSE IF got < need THEN [taken |-> 1 + got, units |-> <<65533>>]
        ELSE [taken |-> 1 + need,
              units |-> IF cp < 65536 THEN <<cp>>
                        ELSE <<55296 + ((cp - 65536) \div 1024),
                               56320 + ((cp - 65536) % 1024)>>]

\* the code units the decoder gives for the sequences that start within
\* lo..hi.  A byte is taken by a sequence before it only as a continuation
\* byte (0x80..0xBF) of a lead byte at most 3 places back, and a lead byte
\* is never a continuation byte: the byte at i starts a sequence unless one
\* of the 3 bytes before it takes it.
RECURSIVE decodeRange(_, _, _)
decodeRange(bytes, lo, hi) ==
    IF lo > hi THEN <<>>
    ELSE IF lo = hi
    THEN IF \E j \in (lo - 3)..(lo - 1) : j >= 1 /\ j + sequenceAt(bytes, j).taken > lo
         THEN <<>>
         ELSE sequenceAt(bytes, lo).units
    ELSE decodeRange(bytes, lo, (lo + hi) \div 2)
            \o decodeRange(bytes, (lo + hi) \div 2 + 1, hi)

\* new TextDecoder().decode(bytes): UTF-8, a byte order mark EF BB BF at the
\* start is left out; bytes that are all below 0x80 are their own code units
textDecode(bytes) ==
    IF \A i \in 1..Len(bytes) : bytes[i] < 128 THEN bytes
    ELSE IF Len(bytes) >= 3 /\ SubSeq(bytes, 1, 3) = <<239, 187, 191>>
    THEN decodeRange(bytes, 4, Len(bytes))
    ELSE decodeRange(bytes, 1, Len(bytes))

EofLine == ":00000001FF"

\* the last index of the match of /^:00000001FF\s*$/m that starts at index i
\* (1-based), 0 when the expression does not match there.  \s* is greedy and
\* backtracks to the longest run of white space that ends where $ holds.
eofMatchEnd(text, i) ==
    IF /\ (i = 1 \/ isLineTerminator(text[i - 1]))
       /\ i + Len(EofLine) - 1 <= Len(text)
       /\ SubSeq(text, i, i + Len(EofLine) - 1) = units(EofLine)
    THEN LET first == i + Len(EofLine) - 1
             ends == { e \in first..Len(text) :
                         /\ \A j \in (first + 1)..e : isSpace(text[j])
                         /\ (e = Len(text) \/ isLineTerminator(text[e + 1])) }
         IN  IF ends = {} THEN 0 ELSE CHOOSE e \in ends : \A f \in ends : f <= e
    ELSE 0

\* eofRegex.exec(text): the leftmost match, as [index, end] (1-based, inclusive),
\* index 0 when there is none
eofExec(text) ==
    LET starts == { i \in 1..Len(text) : eofMatchEnd(text, i) > 0 } IN
    IF starts = {} THEN [index |-> 0, end |-> 0]
    ELSE LET i == CHOOSE x \in starts : \A y \in starts : x <= y
         IN  [index |-> i, end |-> eofMatchEnd(text, i)]

NotBuilt ==
    [status |-> "none", error |-> "", line |-> 0, mainBlocks |-> <<>>, loaderBlocks |-> <<>>]

BuildOk(main, loader) ==
    [status |-> "ok", error |-> "", line |-> 0, mainBlocks |-> main, loaderBlocks |-> loader]

\* the error a session threw, thrown on by buildBlocks: an Error that names
\* the line, or the RangeError
BuildFormatError(r) ==
    [status |-> "error", error |-> IF r.what = "RangeError" THEN "range" ELSE "format",
     line |-> r.line,
     mainBlocks |-> <<>>, loaderBlocks |-> <<>>]

BuildUnsupported ==
    [status |-> "error", error |-> "unsupported", line |-> 0,
     mainBlocks |-> <<>>, loaderBlocks |-> <<>>]

FlashOffset == 1610612736   \* 0x60000000

\* { mainBlocks, loaderBlocks } of the two sessions, or the error of the
\* first session that throws
twoSessions(main, loader) ==
    IF main.status = "error" THEN BuildFormatError(main)
    ELSE IF loader.status = "error" THEN BuildFormatError(loader)
    ELSE BuildOk(main.blocks, loader.blocks)

\* the loader session: decoded at offset 0 when afterText.trim() is not empty
loaderSession(afterText) ==
    IF Len(trim(afterText)) > 0
    THEN parseSingleHexSession(afterText, 0)
    ELSE { [status |-> "ok", line |-> 0, what |-> "", blocks |-> <<>>] }

\* the text and the result of eofRegex.exec on it
splitAtMarker(text, match) ==
    IF match.index = 0
    THEN { twoSessions(main, [status |-> "ok", line |-> 0, what |-> "", blocks |-> <<>>]) :
             main \in parseSingleHexSession(text, FlashOffset) }
    ELSE { twoSessions(ml[1], ml[2]) :
             ml \in parseSingleHexSession(SubSeq(text, 1, match.end), FlashOffset)
                      \X loaderSession(SubSeq(text, match.end + 1, Len(text))) }

parseEhexText(text) == splitAtMarker(text, eofExec(text))

parseEhexFull(ehexData) == parseEhexText(textDecode(ehexData))

\* 0x0478 (Teensy 4.0), 0x0479 (Teensy 4.1)
getAddressOffset(id) == IF id \in {1144, 1145} THEN FlashOffset ELSE 0

\* 0x0483, 0x0484, 0x0474, 0x0477
isTeensy3x(id) == id \in {1155, 1156, 1140, 1143}

\* pages whose rest is filled with 0 in place of 0xFF
binPagesZeroPadded(bytes, i) ==
    IF i >= Len(bytes) THEN <<>>
    ELSE [j \in 1..((Len(bytes) + PAGE_SIZE - 1) \div PAGE_SIZE) |->
             RawPage([k \in 1..PAGE_SIZE |->
                 IF (j - 1) * PAGE_SIZE + k <= Len(bytes)
                 THEN bytes[(j - 1) * PAGE_SIZE + k] ELSE 0])]

\* the .bin branch: 1024-byte pages, the last one padded with 0xFF
RECURSIVE binPages(_, _)
binPages(bytes, i) ==
    IF i >= Len(bytes) THEN <<>>
    ELSE <<RawPage([k \in 1..PAGE_SIZE |->
                       IF i + k <= Len(bytes) THEN bytes[i + k] ELSE 255])>>
         \o binPages(bytes, i + PAGE_SIZE)

\* the .hex branch: mainBlocks of the one session, loaderBlocks = []
hexBlocks(r) == IF r.status = "error" THEN BuildFormatError(r) ELSE BuildOk(r.blocks, <<>>)

\* new FirmwareFile(bytes, name, id).buildBlocks(); a missing id is 0: what
\* the call can return or throw
buildBlocks(bytes, name, id) ==
    LET fname == toLowerCase(name)
        is3x == isTeensy3x(id)
        is4x == ~is3x
    IN  IF is3x /\ endsWith(fname, ".ehex") THEN { BuildUnsupported }
        ELSE IF endsWith(fname, ".hex")
        THEN { hexBlocks(r) :
                 r \in parseSingleHexSession(textDecode(bytes), getAddressOffset(id)) }
        ELSE IF endsWith(fname, ".ehex") /\ is4x THEN parseEhexFull(bytes)
        ELSE { BuildOk(binPages(bytes, 0), <<>>) }

----------------------------------------------------------------------------
(* sendBlocks and countNeeded *)

\* b.data.every(x => x === 0xff); b.data is undefined on a raw page (TypeError)
everyFF(d) == \A i \in 1..Len(d) : d[i] = 255

keepBlockNoFirst(blocks, i) == ~everyFF(blocks[i].data)

\* the filter of sendBlocks / countNeeded: position 0 is kept without looking
\* at the block; TRUE = kept
keepBlock(blocks, i) == IF i = 1 THEN TRUE ELSE ~everyFF(blocks[i].data)

\* the filter callback reads b.data.every at every position but 0
filterThrows(blocks) == \E i \in 2..Len(blocks) : ~blocks[i].hasFields

RECURSIVE filterFrom(_, _)
filterFrom(blocks, i) ==
    IF i > Len(blocks) THEN <<>>
    ELSE (IF keepBlock(blocks, i) THEN <<blocks[i]>> ELSE <<>>) \o filterFrom(blocks, i + 1)

filterNeeded(blocks) == filterFrom(blocks, 1)

countNeeded(blocks) == Len(filterNeeded(blocks))

\* new Uint8Array(REPORT_SIZE)
newReport == [i \in 1..REPORT_SIZE |-> 0]

\* report.fill(0)
reportFill(buf) == [i \in DOMAIN buf |-> 0]

reportAddressBigEndian(buf, addr) ==
    [buf EXCEPT ![1] = (addr \div 65536) % 256, ![2] = (addr \div 256) % 256,
                ![3] = addr % 256]

\* report[0] = addr & 0xff; report[1] = (addr >> 8) & 0xff; report[2] = (addr >> 16) & 0xff
\* (the bitwise operators take NaN as 0)
reportAddress(buf, addr) ==
    IF addr = NaN
    THEN [buf EXCEPT ![1] = 0, ![2] = 0, ![3] = 0]
    ELSE [buf EXCEPT ![1] = addr % 256, ![2] = (addr \div 256) % 256,
                     ![3] = (addr \div 65536) % 256]

\* report.set(data, at)
reportSet(buf, data, at) ==
    [i \in DOMAIN buf |-> IF i > at /\ i <= at + Len(data) THEN data[i - at] ELSE buf[i]]

\* one iteration of the loop of sendBlocks on the buffer buf, up to the send
makeReport(buf, block) ==
    reportSet(reportAddress(reportFill(buf), block.address), block.data, 64)

\* report.set(undefined, 64) throws a TypeError
makeReportThrows(block) == ~block.hasFields

finalReport == [i \in 1..REPORT_SIZE |-> IF i <= 3 THEN 255 ELSE 0]

\* sleep(sentCount === 1 ? 1500 : 5)
pauseAfter(sc) == IF sc = 1 THEN 1500 ELSE 5

progressValueCountOnly(done, count, total) == [num |-> count, den |-> total]

\* progressCb(doneCount / totalNeeded), after doneCount += count
progressValue(done, count, total) == [num |-> done + count, den |-> total]

----------------------------------------------------------------------------
(* Completions *)

NoOutcome == [kind |-> "none", addr |-> 0]
Resolved == [kind |-> "ok", addr |-> 0]
OpenError == [kind |-> "openError", addr |-> 0]
TypeError == [kind |-> "typeError", addr |-> 0]
BlockError(a) == [kind |-> "blockError", addr |-> a]

----------------------------------------------------------------------------
(* SerialPortManager: the state after the constructor *)

Ports == {1, 2}        \* the ports navigator.serial.requestPort() can give
Callers == {1, 2}      \* the callers that may have an openSerialPort call in progress
Readers == 1..MaxCalls

\* the chunks a stream delivers
SerialChunks == { units("AB"), units("C\nDEF\n") }

IdleCall == [pc |-> "idle", port |-> 0]
NoReader == [stream |-> "none", source |-> 0, reads |-> 0]
ClosedPort == [state |-> "closed", lockedBy |-> 0]

\* constructor(): serialPort = null, serialReader = null, incompleteLine = '',
\* onData = null; no port is open and no call is in progress
serialIdle ==
    /\ serialPort = 0
    /\ serialReader = 0
    /\ incompleteLine = <<>>
    /\ onData = FALSE
    /\ ports = [p \in Ports |-> ClosedPort]
    /\ readers = [r \in Readers |-> NoReader]
    /\ openCalls = [c \in Callers |-> IdleCall]
    /\ closeCall = IdleCall
    /\ openResult = [c \in Callers |-> "none"]
    /\ closeResult = "none"
    /\ received = <<>>
    /\ fedText = <<>>
    /\ unheard = FALSE
    /\ feeds = 0
    /\ calls = 0
    /\ lastCall = "none"
    /\ closedQuiet = FALSE
    /\ lateLines = 0

----------------------------------------------------------------------------
(* Inputs *)

MainBase == 1610612736     \* 0x60000000
LoaderBase == 538968064    \* 0x20200000

Lists(base, k) ==
    { [i \in 1..k |-> AddressedBlock(base + (i - 1) * PAGE_SIZE,
                                     IF f[i] THEN BlankData ELSE NonBlankData(i))] :
        f \in [1..k -> BOOLEAN] }

AddressedLists(base, n) == UNION { Lists(base, k) : k \in 0..n }

PageLists(n) == { [i \in 1..k |-> RawPage(NonBlankData(i))] : k \in 1..n }

----------------------------------------------------------------------------
(* flashFirmware *)

InitFlash ==
    /\ \/ /\ mainBlocks \in AddressedLists(MainBase, MaxMain)
          /\ loaderBlocks \in AddressedLists(LoaderBase, MaxLoader)
          /\ Len(mainBlocks) + Len(loaderBlocks) <= MaxBlocks
       \/ /\ mainBlocks \in PageLists(MaxPages)
          /\ loaderBlocks = <<>>
    /\ pc = "open"
    /\ stage = "main"
    /\ needed = <<>>
    /\ idx = 0
    /\ attempt = 0
    /\ sentCount = 0
    /\ report = newReport
    /\ doneCount = 0
    /\ totalNeeded = 0
    /\ delivered = <<>>
    /\ progress = <<>>
    /\ pauses = <<>>
    /\ opened = FALSE
    /\ closeCalls = 0
    /\ closeRejected = FALSE
    /\ pending = NoOutcome
    /\ outcome = NoOutcome
    /\ otherOutcome = NoOutcome
    /\ fileData = <<>>
    /\ fileName = ""
    /\ productId = 0
    /\ built = NotBuilt
    /\ serialIdle

\* await device.open() resolves
Open ==
    /\ pc = "open"
    /\ opened' = TRUE
    /\ pc' = "begin"
    /\ UNCHANGED <<otherOutcome, mainBlocks, loaderBlocks, stage, needed, idx, attempt, sentCount,
                   report, doneCount, totalNeeded, delivered, progress, pauses,
                   closeCalls, closeRejected, pending, outcome>>
    /\ UNCHANGED <<buildVars, serialVars>>

\* the handle as a call whose open() rejects inside the try block would leave
\* it: closed by the finally clause
openRejectedInsideTry(isOpen, closes) == [opened |-> FALSE, closeCalls |-> closes + 1]

\* the handle after a call whose device.open() rejects: the error leaves
\* flashFirmware before the try, the finally clause does not run
openRejected(isOpen, closes) == [opened |-> isOpen, closeCalls |-> closes]

\* await device.open() rejects
OpenFails ==
    /\ pc = "open"
    /\ pc' = "done"
    /\ outcome' = OpenError
    /\ opened' = openRejected(opened, closeCalls).opened
    /\ closeCalls' = openRejected(opened, closeCalls).closeCalls
    /\ UNCHANGED <<otherOutcome, mainBlocks, loaderBlocks, stage, needed, idx, attempt, sentCount,
                   report, doneCount, totalNeeded, delivered, progress, pauses,
                   closeRejected, pending>>
    /\ UNCHANGED <<buildVars, serialVars>>

\* a second flashFirmware call on the handle while it is open (this call
\* holds it, waits for its close() to settle, or its close() was rejected):
\* its device.open() rejects (the device is already open) and the call throws
OtherCallOpenFails ==
    /\ opened
    /\ pc \in {"begin", "send", "retry", "pause", "close", "closing", "done"}
    /\ otherOutcome = NoOutcome
    /\ otherOutcome' = OpenError
    /\ opened' = openRejected(opened, closeCalls).opened
    /\ closeCalls' = openRejected(opened, closeCalls).closeCalls
    /\ UNCHANGED <<mainBlocks, loaderBlocks, pc, stage, needed, idx, attempt, sentCount,
                   report, doneCount, totalNeeded, delivered, progress, pauses,
                   closeRejected, pending, outcome>>
    /\ UNCHANGED <<buildVars, serialVars>>

\* an exception inside the try block: control goes to the finally clause,
\* which calls device.close() and waits for it
throwTo(err) ==
    /\ pc' = "closing"
    /\ pending' = err
    /\ closeCalls' = closeCalls + 1

\* the position the transfer is at once the block at position i of the
\* filtered list nd of set stg is done: the next block of the list, the
\* loader set (a new sendBlocks call, with its own sentCount), or the final report
advance(stg, nd, i, sc) ==
    IF i < Len(nd)
    THEN [stage |-> stg, needed |-> nd, idx |-> i + 1, sentCount |-> sc, throws |-> FALSE]
    ELSE IF stg = "main" /\ Len(loaderBlocks) > 0 /\ filterThrows(loaderBlocks)
    THEN [stage |-> "loader", needed |-> <<>>, idx |-> 0, sentCount |-> 0, throws |-> TRUE]
    ELSE IF stg = "main" /\ Len(loaderBlocks) > 0 /\ Len(filterNeeded(loaderBlocks)) > 0
    THEN [stage |-> "loader", needed |-> filterNeeded(loaderBlocks), idx |-> 1,
          sentCount |-> 0, throws |-> FALSE]
    ELSE [stage |-> "final", needed |-> <<>>, idx |-> 0, sentCount |-> sc, throws |-> FALSE]

\* moves to the position nxt: the report of the block there is written into
\* the buffer of the sendBlocks call (a new buffer at the first block of a
\* call); building the report of a block without .data throws
goTo(nxt) ==
    IF nxt.throws \/ (nxt.stage # "final" /\ makeReportThrows(nxt.needed[nxt.idx]))
    THEN /\ throwTo(TypeError)
         /\ UNCHANGED <<stage, needed, idx, sentCount, report>>
    ELSE /\ pc' = "send"
         /\ UNCHANGED closeCalls
         /\ stage' = nxt.stage
         /\ needed' = nxt.needed
         /\ idx' = nxt.idx
         /\ sentCount' = nxt.sentCount
         /\ report' = IF nxt.stage = "final" THEN report
                       ELSE makeReport(IF nxt.idx = 1 THEN newReport ELSE report,
                                       nxt.needed[nxt.idx])
         /\ UNCHANGED pending

\* the synchronous code from the start of the try block to the first sendReport
BeginTransfer ==
    /\ pc = "begin"
    /\ attempt' = 0
    /\ IF filterThrows(mainBlocks) \/ filterThrows(loaderBlocks)
       THEN /\ throwTo(TypeError)
            /\ UNCHANGED <<stage, needed, idx, sentCount, report, totalNeeded>>
       ELSE /\ totalNeeded' = countNeeded(mainBlocks) + countNeeded(loaderBlocks)
            /\ goTo(advance("main", filterNeeded(mainBlocks), 0, 0))
    /\ UNCHANGED <<otherOutcome, mainBlocks, loaderBlocks, doneCount, delivered, progress, pauses,
                   opened, closeRejected, outcome>>
    /\ UNCHANGED <<buildVars, serialVars>>

currentReport == IF stage = "final" THEN finalReport ELSE report

\* one device.sendReport(0, data) that resolves
SendReportOk ==
    /\ pc = "send"
    /\ delivered' = Append(delivered, currentReport)
    /\ attempt' = 0
    /\ IF stage = "final"
       THEN /\ pc' = "close"
            /\ pending' = Resolved
            /\ UNCHANGED <<sentCount, doneCount, progress, pauses>>
       ELSE /\ sentCount' = sentCount + 1
            /\ doneCount' = doneCount + 1
            /\ progress' = Append(progress, progressValue(doneCount, 1, totalNeeded))
            /\ pauses' = Append(pauses, pauseAfter(sentCount + 1))
            /\ pc' = "pause"
            /\ UNCHANGED pending
    /\ UNCHANGED <<otherOutcome, mainBlocks, loaderBlocks, stage, needed, idx, report, totalNeeded,
                   opened, closeCalls, closeRejected, outcome>>
    /\ UNCHANGED <<buildVars, serialVars>>

\* one device.sendReport(0, data) that rejects: the catch clause starts
\* sleep(100) and the call waits for the timer, no report in flight
SendReportFails ==
    /\ pc = "send"
    /\ pc' = "retry"
    /\ UNCHANGED <<otherOutcome, mainBlocks, loaderBlocks, stage, needed, idx, attempt, sentCount,
                   report, doneCount, totalNeeded, delivered, progress, pauses, opened,
                   closeCalls, closeRejected, pending, outcome>>
    /\ UNCHANGED <<buildVars, serialVars>>

\* the sleep(100) of the catch clause is over: attempt++ and the next turn of
\* the loop calls sendReport again, or the loop ends and sendReportWithRetries
\* returns false (sendBlocks throws; the result of the final report is ignored)
Retry ==
    /\ pc = "retry"
    /\ IF attempt + 1 < maxRetries
       THEN /\ attempt' = attempt + 1
            /\ pc' = "send"
            /\ UNCHANGED <<pending, closeCalls>>
       ELSE /\ attempt' = 0
            /\ IF stage = "final"
               THEN /\ pc' = "close"
                    /\ pending' = Resolved
                    /\ UNCHANGED closeCalls
               ELSE throwTo(BlockError(needed[idx].address))
    /\ UNCHANGED <<otherOutcome, mainBlocks, loaderBlocks, stage, needed, idx, sentCount, report,
                   doneCount, totalNeeded, delivered, progress, pauses, opened,
                   closeRejected, outcome>>
    /\ UNCHANGED <<buildVars, serialVars>>

\* the sleep after a transmitted block ends: next iteration of the loop
Pause ==
    /\ pc = "pause"
    /\ goTo(advance(stage, needed, idx, sentCount))
    /\ UNCHANGED <<otherOutcome, mainBlocks, loaderBlocks, attempt, doneCount, totalNeeded, delivered,
                   progress, pauses, opened, closeRejected, outcome>>
    /\ UNCHANGED <<buildVars, serialVars>>

settlePropagatesCloseError(closeOk) ==
    IF closeOk THEN pending ELSE [kind |-> "closeError", addr |-> 0]

\* what the call settles with once the finally clause has run
settle(closeOk) == pending

\* the sleep(100) that ends the try block is over: the finally clause calls
\* device.close() and waits for it
Close ==
    /\ pc = "close"
    /\ closeCalls' = closeCalls + 1
    /\ pc' = "closing"
    /\ UNCHANGED <<otherOutcome, mainBlocks, loaderBlocks, stage, needed, idx, attempt, sentCount,
                   report, doneCount, totalNeeded, delivered, progress, pauses, opened,
                   closeRejected, pending, outcome>>
    /\ UNCHANGED <<buildVars, serialVars>>

\* the promise of device.close() settles; .catch(() => { }) takes a rejection,
\* and the call settles with the completion of the try block
CloseSettles ==
    /\ pc = "closing"
    /\ \E closeOk \in BOOLEAN :
        /\ closeRejected' = ~closeOk
        /\ opened' = IF closeOk THEN FALSE ELSE opened
        /\ outcome' = settle(closeOk)
    /\ pc' = "done"
    /\ UNCHANGED <<otherOutcome, mainBlocks, loaderBlocks, stage, needed, idx, attempt, sentCount,
                   report, doneCount, totalNeeded, delivered, progress, pauses, closeCalls,
                   pending>>
    /\ UNCHANGED <<buildVars, serialVars>>

NextFlash ==
    \/ Open
    \/ OpenFails
    \/ OtherCallOpenFails
    \/ BeginTransfer
    \/ SendReportOk
    \/ SendReportFails
    \/ Retry
    \/ Pause
    \/ Close
    \/ CloseSettles

Spec == InitFlash /\ [][NextFlash]_vars

----------------------------------------------------------------------------
(* Files given to buildBlocks *)

hexByte(v) == charAt(UpperDigits, (v \div 16) + 1) \o charAt(UpperDigits, (v % 16) + 1)

RECURSIVE sumBytes(_, _)
sumBytes(bytes, i) == IF i > Len(bytes) THEN 0 ELSE bytes[i] + sumBytes(bytes, i + 1)

\* the bytes of a record: length, address, type, payload and the checksum
\* that makes their sum 0 modulo 256
recordBytes(type, addr, data) ==
    LET head == <<Len(data), addr \div 256, addr % 256, type>> \o data
    IN  head \o <<(256 - (sumBytes(head, 1) % 256)) % 256>>

RECURSIVE hexOf(_, _)
hexOf(bytes, i) == IF i > Len(bytes) THEN "" ELSE hexByte(bytes[i]) \o hexOf(bytes, i + 1)

lineOf(bytes) == ":" \o hexOf(bytes, 1)

recordLine(type, addr, data) == lineOf(recordBytes(type, addr, data))

\* single records: every record type, payloads of up to MaxRecLen bytes
Payloads == UNION { [1..n -> {0, 249}] : n \in 0..MaxRecLen }
ValidRecords == { recordBytes(t, 16, d) : t \in {0, 1, 2, 4, 5}, d \in Payloads }

\* a record with the byte at position pos replaced by val
corrupted(bytes, pos, val) == [bytes EXCEPT ![pos] = val]
CorruptedRecords ==
    UNION { { corrupted(r, c[1], c[2]) :
                c \in { x \in (1..Len(r)) \X {0, 1, 2, 4, 171} : r[x[1]] # x[2] } } :
            r \in ValidRecords }
OddLines == { "", "00000001FF", ":0", ":00000001ff", "  :00000001FF  ", ":000000GG00",
              ":0100000G00FF" }
SingleLines == { lineOf(r) : r \in ValidRecords \cup CorruptedRecords } \cup OddLines

\* pieces of dual-segment texts
ChunkFlash == recordLine(4, 0, <<96, 0>>) \o "\n" \o recordLine(0, 0, <<17, 34>>)
ChunkRam == recordLine(4, 0, <<32, 32>>) \o "\r\n" \o recordLine(0, 1023, <<51, 52>>)
ChunkHigh == recordLine(4, 0, <<128, 0>>) \o "\n" \o recordLine(0, 0, <<85>>)
ChunkData == recordLine(0, 16, <<68>>)
ChunkBad == ":0100000000FE"
Chunks == { ChunkFlash, ChunkRam, ChunkHigh, ChunkData, ChunkBad,
            EofLine, EofLine \o " ", ":00000001ff", " " \o EofLine, "" }

RECURSIVE joinLines(_, _)
joinLines(pieces, i) ==
    IF i > Len(pieces) THEN ""
    ELSE pieces[i] \o (IF i < Len(pieces) THEN "\n" ELSE "") \o joinLines(pieces, i + 1)

EhexTexts == { joinLines(q, 1) : q \in UNION { [1..n -> Chunks] : n \in 0..MaxChunks } }

FileNames == { "fw.hex", "fw.ehex", "FW.EHEX", "fw.bin", "fw.hex.txt" }
\* the ids of TEENSY_DEVICE_FILTERS, no id (0) and an id outside the table
ProductIds == { 1144, 1145, 1143, 1140, 1156, 1155, 0, 4660 }
DispatchTexts == { joinLines(<<ChunkFlash, EofLine, ChunkRam, EofLine>>, 1), ChunkBad }

\* lines of single sessions: address records below, at and above the flash
\* base, Data records (one next to the other, one across a block boundary),
\* the end-of-file record, a record with a wrong checksum
ElaLow == recordLine(4, 0, <<0, 1>>)
ElaFlash == recordLine(4, 0, <<96, 1>>)
ElaHigh == recordLine(4, 0, <<128, 0>>)
DataA == recordLine(0, 32, <<170, 187>>)
DataB == recordLine(0, 33, <<204>>)
DataEdge == recordLine(0, 1023, <<1, 2>>)
SessionLines == { ElaLow, ElaFlash, ElaHigh, DataA, DataB, DataEdge, EofLine, ChunkBad }
SessionTexts ==
    { joinLines(q, 1) : q \in UNION { [1..n -> SessionLines] : n \in 0..MaxSession } }

\* sessions of one or two address records and a Data record: segment and
\* linear address words below and above 0x8000
AddressLines ==
    { recordLine(2, 0, <<0, 1>>), recordLine(2, 0, <<255, 255>>), ElaLow, ElaHigh,
      recordLine(4, 0, <<255, 255>>) }
AddressTexts ==
    { joinLines(<<a, DataEdge>>, 1) : a \in AddressLines }
        \cup { joinLines(<<a, b, DataA>>, 1) : a \in AddressLines, b \in AddressLines }

\* sessions with a Data record whose address field has no hexadecimal digit
\* (parseInt gives NaN, and the checksum test lets the record pass)
DataNaN == ":01GGGG0055AA"
UnsortedTexts ==
    { joinLines(q, 1) : q \in { <<DataNaN>>, <<DataNaN, DataA>>, <<DataEdge, DataNaN>>,
                                <<ElaFlash, DataEdge, DataNaN>>,
                                <<ElaLow, DataA, DataNaN, DataEdge>> } }

\* files with a sign or white space inside the fields, with a negative
\* length, with form feed, vertical tab, U+00A0 and U+2028 around the lines,
\* with a byte order mark, and with bytes that are not ASCII text
OddFiles ==
    { units(":+0000001FF"), units(":01-00100AA57"), units(":01000000+5FA"),
      units(":-1000000"), units(":-1000001"), units("\f"), units("\f" \o EofLine),
      units(":0100000001FE\f\n" \o EofLine),
      units(":02000002-001FE\n" \o DataA),
      units(joinLines(<<ElaFlash, ":01-00100AA57", EofLine>>, 1)),
      units(ChunkFlash \o "\n" \o EofLine \o "\n\f\n" \o ChunkRam),
      units(EofLine \o "\f\n" \o ChunkRam),
      <<239, 187, 191>> \o units(EofLine \o "\n" \o ChunkRam),
      <<194, 160>> \o units(ChunkData) \o <<11>>,
      units(ChunkFlash) \o <<226, 128, 168>> \o units(EofLine \o "\n" \o ChunkRam),
      <<195, 169>>, <<58, 11, 48>>, <<255>> \o units(EofLine),
      <<240, 159, 152, 128>>, <<226, 128, 58>> }

\* raw-binary files: empty, shorter than a page, whole pages, pages and a rest
BinaryFiles == { [i \in 1..n |-> (i * k) % 256] : n \in { 0, 1, 1023, 1024, 1025, 2048, 2500 },
      k \in { 1, 37 } }

----------------------------------------------------------------------------
(* buildBlocks as a step *)

flashIdle ==
    /\ mainBlocks = <<>>
    /\ loaderBlocks = <<>>
    /\ pc = "idle"
    /\ stage = "main"
    /\ needed = <<>>
    /\ idx = 0
    /\ attempt = 0
    /\ sentCount = 0
    /\ report = newReport
    /\ doneCount = 0
    /\ totalNeeded = 0
    /\ delivered = <<>>
    /\ progress = <<>>
    /\ pauses = <<>>
    /\ opened = FALSE
    /\ closeCalls = 0
    /\ closeRejected = FALSE
    /\ pending = NoOutcome
    /\ outcome = NoOutcome
    /\ otherOutcome = NoOutcome

InitBuild ==
    /\ flashIdle
    /\ serialIdle
    /\ built = NotBuilt
    /\ \/ /\ fileName = "fw.hex"
          /\ productId = 1155
          /\ fileData \in { units(l) : l \in SingleLines }
       \/ /\ fileName = "fw.ehex"
          /\ productId = 1144
          /\ fileData \in { units(t) : t \in EhexTexts }
       \/ /\ fileName \in FileNames
          /\ productId \in ProductIds
          /\ fileData \in { units(t) : t \in DispatchTexts }
       \/ /\ fileName = "fw.hex"
          /\ productId \in { 1144, 1155 }
          /\ fileData \in { units(t) : t \in SessionTexts }
       \/ /\ fileName = "fw.hex"
          /\ productId = 1155
          /\ fileData \in { units(t) : t \in AddressTexts }
       \/ /\ fileName = "fw.hex"
          /\ productId \in { 1144, 1155 }
          /\ fileData \in { units(t) : t \in UnsortedTexts }
       \/ /\ fileName \in { "fw.hex", "fw.ehex" }
          /\ productId \in { 1144, 1155 }
          /\ fileData \in OddFiles
       \/ /\ fileName \in { "fw.bin", "FW.BIN", "fw.img", "fw.hex.txt" }
          /\ productId \in { 1144, 1155, 0 }
          /\ fileData \in BinaryFiles

\* await fw.buildBlocks()
BuildBlocks ==
    /\ built = NotBuilt
    /\ built' \in buildBlocks(fileData, fileName, productId)
    /\ UNCHANGED <<fileData, fileName, productId>>
    /\ UNCHANGED <<flashVars, serialVars>>

NextBuild == BuildBlocks

SpecBuild == InitBuild /\ [][NextBuild]_vars

----------------------------------------------------------------------------
(* SerialPortManager *)

\* s.split('\n'): the pieces between the separators
RECURSIVE splitNewline(_, _, _)
splitNewline(text, from, i) ==
    IF i > Len(text) THEN <<SubSeq(text, from, Len(text))>>
    ELSE IF text[i] = 10
    THEN <<SubSeq(text, from, i - 1)>> \o splitNewline(text, i + 1, i + 1)
    ELSE splitNewline(text, from, i + 1)

\* port.close() is called on port p: it goes on only when the port is open
\* and its readable is not locked, and rejects otherwise
closeStarted(p) ==
    IF ports[p].state = "opened" /\ ports[p].lockedBy = 0
    THEN [pc |-> "closing", port |-> p]
    ELSE [pc |-> "failing", port |-> p]

closing(p, after) ==
    IF after[p].state = "opened" /\ after[p].lockedBy = 0
    THEN [after EXCEPT ![p].state = "closing"]
    ELSE after

\* every piece trimmed, the one after the last separator too
completeLinesWithLast(lines) == [i \in 1..Len(lines) |-> trim(lines[i])]

\* lines[0 .. lines.length - 2], each trimmed
completeLines(lines) == [i \in 1..(Len(lines) - 1) |-> trim(lines[i])]

\* the reader the next getReader() makes
nextReader == CHOOSE r \in Readers :
                 readers[r] = NoReader /\ \A q \in Readers : q < r => readers[q] # NoReader

\* openSerialPort is called: the guard on this.serialPort, then requestPort()
StartOpen(c) ==
    /\ openCalls[c].pc = "idle"
    /\ calls < MaxCalls
    /\ calls' = calls + 1
    /\ lastCall' = "open"
    /\ IF serialPort # 0
       THEN /\ openResult' = [openResult EXCEPT ![c] = "alreadyOpen"]
            /\ UNCHANGED openCalls
       ELSE /\ openResult' = [openResult EXCEPT ![c] = "pending"]
            /\ openCalls' = [openCalls EXCEPT ![c] = [pc |-> "request", port |-> 0]]
    /\ UNCHANGED <<serialPort, serialReader, incompleteLine, onData, ports, readers,
                   closeCall, closeResult, received, fedText, unheard, feeds,
                   closedQuiet, lateLines>>
    /\ UNCHANGED <<flashVars, buildVars>>

\* requestPort() rejects: the call throws
RequestRejected(c) ==
    /\ openCalls[c].pc = "request"
    /\ openCalls' = [openCalls EXCEPT ![c] = IdleCall]
    /\ openResult' = [openResult EXCEPT ![c] = "error"]
    /\ UNCHANGED <<serialPort, serialReader, incompleteLine, onData, ports, readers,
                   closeCall, closeResult, received, fedText, unheard, feeds, calls, lastCall,
                   closedQuiet, lateLines>>
    /\ UNCHANGED <<flashVars, buildVars>>

\* requestPort() resolves with port p: this.serialPort = p, then p.open(),
\* which rejects at once on a port that is open or being opened
PortChosen(c, p) ==
    /\ openCalls[c].pc = "request"
    /\ serialPort' = p
    /\ IF ports[p].state = "closed"
       THEN /\ ports' = [ports EXCEPT ![p].state = "opening"]
            /\ openCalls' = [openCalls EXCEPT ![c] = [pc |-> "opening", port |-> p]]
            /\ UNCHANGED openResult
       ELSE /\ openCalls' = [openCalls EXCEPT ![c] = IdleCall]
            /\ openResult' = [openResult EXCEPT ![c] = "error"]
            /\ UNCHANGED ports
    /\ UNCHANGED <<serialReader, incompleteLine, onData, readers, closeCall, closeResult,
                   received, fedText, unheard, feeds, calls, lastCall, closedQuiet, lateLines>>
    /\ UNCHANGED <<flashVars, buildVars>>

\* this.serialPort.open() rejects: the call throws, this.serialPort stays set
OpenRejects(c) ==
    /\ openCalls[c].pc = "opening"
    /\ ports' = [ports EXCEPT ![openCalls[c].port].state = "closed"]
    /\ openCalls' = [openCalls EXCEPT ![c] = IdleCall]
    /\ openResult' = [openResult EXCEPT ![c] = "error"]
    /\ UNCHANGED <<serialPort, serialReader, incompleteLine, onData, readers, closeCall,
                   closeResult, received, fedText, unheard, feeds, calls, lastCall, closedQuiet,
                   lateLines>>
    /\ UNCHANGED <<flashVars, buildVars>>

\* open() resolves and the rest of openSerialPort runs on what this.serialPort
\* is now: this.serialPort.readable.pipeTo(...) throws a TypeError when
\* this.serialPort is null or not open (readable is null); pipeTo on a
\* readable that is locked gives a rejected promise nobody awaits, and the
\* new reader then never receives anything.  getReader(), and the read loop
\* starts: its first read() on the new reader is pending.
OpenResolves(c) ==
    /\ openCalls[c].pc = "opening"
    /\ LET p == openCalls[c].port
           opened1 == [ports EXCEPT ![p].state = "opened"]
           target == serialPort
           r == nextReader
       IN  IF target = 0 \/ opened1[target].state # "opened"
           THEN /\ ports' = opened1
                /\ openResult' = [openResult EXCEPT ![c] = "error"]
                /\ UNCHANGED <<serialReader, readers, closedQuiet>>
           ELSE /\ ports' = IF opened1[target].lockedBy = 0
                            THEN [opened1 EXCEPT ![target].lockedBy = r]
                            ELSE opened1
                /\ readers' = [readers EXCEPT ![r] =
                                  [stream |-> "readable",
                                   source |-> IF opened1[target].lockedBy = 0
                                              THEN target ELSE 0,
                                   reads |-> 1]]
                /\ serialReader' = r
                /\ openResult' = [openResult EXCEPT ![c] = "ok"]
                /\ closedQuiet' = FALSE
    /\ openCalls' = [openCalls EXCEPT ![c] = IdleCall]
    /\ UNCHANGED <<serialPort, incompleteLine, onData, closeCall, closeResult, received,
                   fedText, unheard, feeds, calls, lastCall, lateLines>>
    /\ UNCHANGED <<flashVars, buildVars>>

\* processSerialData(dataChunk); byLoop tells a call made by a read loop
\* from a call the user of the class makes
processSerialData(chunk, byLoop) ==
    /\ feeds' = feeds + 1
    /\ LET lines == splitNewline(incompleteLine \o chunk, 1, 1)
           complete == completeLines(lines)
       IN  /\ incompleteLine' = lines[Len(lines)]
           /\ received' = IF onData THEN received \o complete ELSE received
           /\ unheard' = (unheard \/ (~onData /\ Len(complete) > 0))
           /\ lateLines' = IF onData /\ closedQuiet /\ byLoop THEN lateLines + Len(complete)
                           ELSE lateLines
    /\ fedText' = fedText \o chunk

\* the next turn of a loop that has taken a chunk from reader r: it evaluates
\* this.serialReader.read() anew.  On null the TypeError ends the loop in its
\* catch clause; on a closed stream read() gives done and on an errored one it
\* rejects, which end the loop as well; else the read() is pending on the
\* reader this.serialReader is now.
nextRead(r) ==
    LET left == [readers EXCEPT ![r].reads = @ - 1] IN
    IF serialReader # 0 /\ left[serialReader].stream = "readable"
    THEN [left EXCEPT ![serialReader].reads = @ + 1]
    ELSE left

\* the stream of reader r has a chunk for a pending read(): the loop that
\* waits for it calls processSerialData(chunk) and reads again.  A chunk on a
\* reader no loop reads stays in the stream.
ReadChunk(r, chunk) ==
    /\ readers[r].stream = "readable"
    /\ readers[r].source # 0
    /\ ports[readers[r].source].state = "opened"
    /\ readers[r].reads > 0
    /\ feeds < MaxFeeds
    /\ processSerialData(chunk, TRUE)
    /\ readers' = nextRead(r)
    /\ UNCHANGED <<serialPort, serialReader, onData, ports, openCalls, closeCall,
                   openResult, closeResult, calls, lastCall, closedQuiet>>
    /\ UNCHANGED <<flashVars, buildVars>>

\* the user of the class calls processSerialData(chunk) itself
DirectFeed(chunk) ==
    /\ feeds < MaxFeeds
    /\ processSerialData(chunk, FALSE)
    /\ closedQuiet' = FALSE
    /\ UNCHANGED <<serialPort, serialReader, onData, ports, readers, openCalls, closeCall,
                   openResult, closeResult, calls, lastCall>>
    /\ UNCHANGED <<flashVars, buildVars>>

\* the stream fails (the device is gone): the pending read() calls reject,
\* the loops log the error and end; the pipe lets go of the port's readable
StreamError(r) ==
    /\ readers[r].stream = "readable"
    /\ readers[r].source # 0
    /\ readers' = [readers EXCEPT ![r].reads = 0, ![r].stream = "errored"]
    /\ ports' = [ports EXCEPT ![readers[r].source].lockedBy = 0]
    /\ UNCHANGED <<serialPort, serialReader, incompleteLine, onData, openCalls, closeCall,
                   openResult, closeResult, received, fedText, unheard, feeds, calls, lastCall,
                   closedQuiet, lateLines>>
    /\ UNCHANGED <<flashVars, buildVars>>

\* closeSerialPort is called: the guard on this.serialPort, then
\* this.serialReader.cancel() (rejects on an errored stream; otherwise the
\* stream closes and the pending read() calls give done, which ends their
\* loops; the pipe of line 533 still holds the lock of the port's readable),
\* or, without a reader, this.serialPort.close()
StartClose ==
    /\ closeCall.pc = "idle"
    /\ calls < MaxCalls
    /\ calls' = calls + 1
    /\ lastCall' = "close"
    /\ IF serialPort = 0
       THEN /\ closeResult' = "notOpen"
            /\ UNCHANGED <<closeCall, readers, ports>>
       ELSE IF serialReader = 0
       THEN /\ closeResult' = "pending"
            /\ closeCall' = closeStarted(serialPort)
            /\ ports' = closing(serialPort, ports)
            /\ UNCHANGED readers
       ELSE IF readers[serialReader].stream = "errored"
       THEN /\ closeResult' = "error"
            /\ UNCHANGED <<closeCall, readers, ports>>
       ELSE /\ closeResult' = "pending"
            /\ closeCall' = [pc |-> "cancel", port |-> 0]
            /\ readers' = [readers EXCEPT ![serialReader].reads = 0,
                                          ![serialReader].stream = "closed"]
            /\ UNCHANGED ports
    /\ UNCHANGED <<serialPort, serialReader, incompleteLine, onData, openCalls,
                   openResult, received, fedText, unheard, feeds, closedQuiet, lateLines>>
    /\ UNCHANGED <<flashVars, buildVars>>

\* the pipe of port p, whose destination was cancelled, has cancelled the
\* port's stream and lets go of it: port.readable is no longer locked
PipeReleases(p) ==
    /\ ports[p].lockedBy # 0
    /\ readers[ports[p].lockedBy].stream = "closed"
    /\ ports' = [ports EXCEPT ![p].lockedBy = 0]
    /\ UNCHANGED <<serialPort, serialReader, incompleteLine, onData, readers, openCalls,
                   closeCall, openResult, closeResult, received, fedText, unheard, feeds,
                   calls, lastCall, closedQuiet, lateLines>>
    /\ UNCHANGED <<flashVars, buildVars>>

\* cancel() resolves: this.serialReader = null, then this.serialPort.close()
CancelResolves ==
    /\ closeCall.pc = "cancel"
    /\ serialReader' = 0
    /\ closeCall' = closeStarted(serialPort)
    /\ ports' = closing(serialPort, ports)
    /\ UNCHANGED <<serialPort, incompleteLine, onData, readers, openCalls,
                   openResult, closeResult, received, fedText, unheard, feeds, calls, lastCall,
                   closedQuiet, lateLines>>
    /\ UNCHANGED <<flashVars, buildVars>>

\* close() resolves: this.serialPort = null, this.incompleteLine = ''
CloseResolves ==
    /\ closeCall.pc = "closing"
    /\ ports' = [ports EXCEPT ![closeCall.port] = ClosedPort]
    /\ serialPort' = 0
    /\ incompleteLine' = <<>>
    /\ closeCall' = IdleCall
    /\ closeResult' = "ok"
    /\ received' = <<>>
    /\ fedText' = <<>>
    /\ unheard' = FALSE
    /\ closedQuiet' = TRUE
    /\ UNCHANGED <<serialReader, onData, readers, openCalls, openResult, feeds, calls, lastCall,
                   lateLines>>
    /\ UNCHANGED <<flashVars, buildVars>>

\* close() rejects (the port was not open, or its readable was locked):
\* the call throws before this.serialPort and this.incompleteLine are reset
CloseRejects ==
    /\ closeCall.pc = "failing"
    /\ closeCall' = IdleCall
    /\ closeResult' = "error"
    /\ UNCHANGED <<serialPort, serialReader, incompleteLine, onData, ports, readers,
                   openCalls, openResult, received, fedText, unheard, feeds, calls, lastCall,
                   closedQuiet, lateLines>>
    /\ UNCHANGED <<flashVars, buildVars>>

\* serialManager.onData = (line) => { ... }
SetOnData ==
    /\ ~onData
    /\ onData' = TRUE
    /\ UNCHANGED <<serialPort, serialReader, incompleteLine, ports, readers, openCalls,
                   closeCall, openResult, closeResult, received, fedText, unheard, feeds,
                   calls, lastCall, closedQuiet, lateLines>>
    /\ UNCHANGED <<flashVars, buildVars>>

buildIdle ==
    /\ fileData = <<>>
    /\ fileName = ""
    /\ productId = 0
    /\ built = NotBuilt

InitSerial ==
    /\ flashIdle
    /\ buildIdle
    /\ serialIdle

NextSerial ==
    \/ \E c \in Callers : StartOpen(c)
    \/ \E c \in Callers : RequestRejected(c)
    \/ \E c \in Callers, p \in Ports : PortChosen(c, p)
    \/ \E c \in Callers : OpenRejects(c)
    \/ \E c \in Callers : OpenResolves(c)
    \/ \E r \in Readers, chunk \in SerialChunks : ReadChunk(r, chunk)
    \/ \E chunk \in SerialChunks : DirectFeed(chunk)
    \/ \E r \in Readers : StreamError(r)
    \/ StartClose
    \/ \E p \in Ports : PipeReleases(p)
    \/ CancelResolves
    \/ CloseResolves
    \/ CloseRejects
    \/ SetOnData

SpecSerial == InitSerial /\ [][NextSerial]_vars

\* processSerialData on its own: the chunks the user of the class feeds to a
\* manager that holds no port, with and without white space around the
\* lines (form feed and U+00A0 too), with empty lines and with several lines
\* in one chunk
NextFeed ==
    \/ \E chunk \in SerialChunks
                      \cup { units(" x \r\n\n"), units("\n"), units(" y"), units("z \n w\r"),
                             <<160>> \o units("v\f\n") } :
          DirectFeed(chunk)
    \/ SetOnData

SpecFeed == InitSerial /\ [][NextFeed]_vars

----------------------------------------------------------------------------
(* Vocabulary of the properties, stated without the transfer's own filter *)

openSucceeded == pc \notin {"open"} /\ outcome # OpenError
finished == pc = "done"
succeeded == pc = "done" /\ outcome = Resolved

blankC(d) == d = BlankData
eligibleC(blocks, p) == p = 1 \/ ~blankC(blocks[p].data)
eligiblePositions(blocks) == { p \in 1..Len(blocks) : eligibleC(blocks, p) }

\* r is the report of block b: 24-bit little-endian address, zero header, data
isReportOf(r, b) ==
    /\ r[2] = (b.address \div 256) % 256
    /\ r[1] = b.address % 256
    /\ r[3] = (b.address \div 65536) % 256
    /\ \A i \in 4..64 : r[i] = 0
    /\ SubSeq(r, 65, REPORT_SIZE) = b.data

isSentinel(r) == r[1] = 255 /\ r[2] = 255 /\ r[3] = 255 /\ r = finalReport
timesDelivered(b) == Cardinality({ j \in 1..Len(delivered) : isReportOf(delivered[j], b) })
sentinelsDelivered == Cardinality({ j \in 1..Len(delivered) : isSentinel(delivered[j]) })
dataDelivered == { j \in 1..Len(delivered) : ~isSentinel(delivered[j]) }

RECURSIVE eligibleBlocks(_, _)
eligibleBlocks(blocks, p) ==
    IF p > Len(blocks) THEN <<>>
    ELSE (IF eligibleC(blocks, p) THEN <<blocks[p]>> ELSE <<>>)
         \o eligibleBlocks(blocks, p + 1)

----------------------------------------------------------------------------
\* C1: once device.open() has succeeded, device.close() is invoked exactly once
\* before flashFirmware returns or throws, on every exit path, and a rejected
\* close() does not change how the call settles.
C1_CloseOnceOnEveryExit ==
    /\ (finished /\ outcome # OpenError) => (closeCalls = 1 /\ outcome = pending)
    /\ ~finished => (outcome = NoOutcome /\ closeCalls = IF pc = "closing" THEN 1 ELSE 0)
    /\ (finished /\ outcome # OpenError) => outcome.kind \in {"ok", "blockError", "typeError"}

C1_Witness ==
    /\ finished /\ closeCalls = 1 /\ closeRejected
    /\ outcome.kind = "blockError"

C1_WitnessOtherException ==
    finished /\ closeCalls = 1 /\ outcome = TypeError

\* C2: a report is attempted at most 5 times and the attempts stop at the first
\* success; a block that fails 4 times and then succeeds is counted as sent and
\* raises nothing; a block that fails 5 times fails the call with that block's
\* address, and no report (block or sentinel) is sent afterwards.
C2_RetryCeiling ==
    /\ [](attempt \in 0..4)
    /\ [][(pc = "send" /\ delivered' # delivered)
            => (attempt' = 0 /\ Len(delivered') = Len(delivered) + 1
                /\ (stage # "final" => (pc' = "pause" /\ pending' = NoOutcome
                                         /\ doneCount' = doneCount + 1)))]_vars
    /\ [][(pending'.kind = "blockError" /\ pending.kind # "blockError")
            => (pc = "retry" /\ attempt = 4 /\ stage # "final"
                /\ delivered' = delivered
                /\ pending'.addr = needed[idx].address)]_vars
    /\ [][(pc = "retry" /\ attempt = 4 /\ stage # "final" /\ otherOutcome' = otherOutcome)
            => pending' = BlockError(needed[idx].address)]_vars
    /\ [][(pc = "send" /\ delivered' = delivered /\ otherOutcome' = otherOutcome)
            => (pc' = "retry" /\ pending' = pending /\ closeCalls' = closeCalls)]_vars
    /\ [][(pc = "retry" /\ attempt < 4 /\ otherOutcome' = otherOutcome)
            => (pc' = "send" /\ attempt' = attempt + 1 /\ pending' = pending)]_vars
    /\ [][pending.kind = "blockError" => delivered' = delivered]_vars
    /\ []((finished /\ outcome.kind = "blockError")
            => (/\ outcome.addr = needed[idx].address
                /\ sentinelsDelivered = 0
                /\ timesDelivered(needed[idx]) = 0))

C2_WitnessFifthSucceeds ==
    pc = "pause" /\ pending = NoOutcome /\ Len(delivered) = 2 /\ doneCount = 2

C2_Witness ==
    /\ finished /\ outcome.kind = "blockError"
    /\ outcome.addr = MainBase + PAGE_SIZE /\ Len(delivered) = 1

\* C3: within each set, a successful run transmits exactly the block at list
\* position 0 and every other block that is not entirely 0xFF, each exactly
\* once; an all-0xFF block at a later position is never transmitted.
C3_EligibleBlocksExactlyOnce ==
    \A blocks \in {mainBlocks, loaderBlocks} :
        LET elig == eligiblePositions(blocks) IN
        /\ \A p \in (1..Len(blocks)) \ elig :
              blocks[p].hasFields => timesDelivered(blocks[p]) = 0
        /\ succeeded => \A p \in elig : timesDelivered(blocks[p]) = 1
        /\ succeeded => Cardinality(dataDelivered)
                          = Cardinality(eligiblePositions(mainBlocks))
                            + Cardinality(eligiblePositions(loaderBlocks))

C3_Witness ==
    /\ succeeded
    /\ Len(mainBlocks) = 4 /\ Cardinality(eligiblePositions(mainBlocks)) = 2
    /\ blankC(mainBlocks[1].data)
    /\ Len(loaderBlocks) = 2 /\ Cardinality(eligiblePositions(loaderBlocks)) = 1

\* C4: in any successful run the delivered reports are the eligible main-set
\* blocks in list order, then the eligible loader-set blocks in list order,
\* then exactly one sentinel report.
C4_BlocksThenOneSentinel ==
    succeeded =>
        LET want == eligibleBlocks(mainBlocks, 1) \o eligibleBlocks(loaderBlocks, 1) IN
        /\ Len(delivered) = Len(want) + 1
        /\ \A j \in 1..Len(want) : isReportOf(delivered[j], want[j])
        /\ isSentinel(delivered[Len(delivered)])

\* C5: the progress callback runs once per transmitted data block with
\* sentSoFar / totalEligible; the values are strictly increasing in (0,1], the
\* last one of a successful run is 1, nothing is reported and nothing fails
\* when the eligible total is 0, and a 4-block list with blank positions 1 and
\* 3 gives exactly 2 values.
totalEligible == Cardinality(eligiblePositions(mainBlocks))
                 + Cardinality(eligiblePositions(loaderBlocks))

C5_ProgressPerTransmittedBlock ==
    LET total == totalEligible IN
    /\ Len(progress) = Cardinality(dataDelivered)
    /\ \A j \in 1..Len(progress) :
          /\ progress[j].num = j
          /\ progress[j].den = total
          /\ 0 < progress[j].num /\ progress[j].num <= progress[j].den
    /\ \A j, k \in 1..Len(progress) :
          j < k => progress[j].num * progress[k].den < progress[k].num * progress[j].den
    /\ (succeeded /\ Len(progress) > 0)
          => progress[Len(progress)].num = progress[Len(progress)].den
    /\ (finished /\ outcome # OpenError /\ total = 0)
          => (progress = <<>> /\ outcome = Resolved)
    /\ (succeeded /\ Len(mainBlocks) = 4 /\ loaderBlocks = <<>>
        /\ eligiblePositions(mainBlocks) = {1, 3} /\ ~blankC(mainBlocks[1].data))
          => Len(progress) = 2

C5_Witness ==
    /\ succeeded /\ Len(mainBlocks) = 4 /\ eligiblePositions(mainBlocks) = {1, 3}
    /\ ~blankC(mainBlocks[1].data) /\ loaderBlocks = <<>>
    /\ Len(progress) = 2 /\ Len(delivered) = 3

C5_WitnessEmpty ==
    succeeded /\ totalEligible = 0 /\ progress = <<>>

----------------------------------------------------------------------------
(* Vocabulary of the properties about buildBlocks *)

fileText == textDecode(fileData)
builtDone == built # NotBuilt
accepted == built.status = "ok"
ehexName == endsWith(toLowerCase(fileName), ".ehex")
largeAddressId == productId \in {1144, 1145}
dualDone == builtDone /\ ehexName /\ largeAddressId

oneLine(text) == \A i \in 1..Len(text) : text[i] # 10
blank(text) == \A i \in 1..Len(text) : isSpace(text[i])
allHex(s) == \A i \in 1..Len(s) : digitValue(s[i]) # NaN

\* the byte written by the k-th pair of hex characters of s
pairValue(s, k) == digitValue(s[2 * k - 1]) * 16 + digitValue(s[2 * k])

RECURSIVE pairSum(_, _)
pairSum(s, k) == IF 2 * k > Len(s) THEN 0 ELSE pairValue(s, k) + pairSum(s, k + 1)

\* a record as the format defines it: ':', then 10 + 2*length hex characters
\* whose bytes (length, address, type, data, checksum) add up to 0 modulo 256
wellFormedRecord(t) ==
    /\ startsWith(t, units(":"))
    /\ Len(t) >= 11
    /\ allHex(SubSeq(t, 2, Len(t)))
    /\ Len(t) - 1 = 10 + 2 * pairValue(SubSeq(t, 2, Len(t)), 1)
    /\ pairSum(SubSeq(t, 2, Len(t)), 1) % 256 = 0

\* the end of the line that starts at index i
lineEnd(text, i) ==
    CHOOSE e \in (i - 1)..Len(text) :
        /\ \A j \in i..e : ~isLineTerminator(text[j])
        /\ (e = Len(text) \/ isLineTerminator(text[e + 1]))

\* the line that starts at index i is the canonical end-of-file record,
\* white space allowed after it
canonicalLineAt(text, i) ==
    /\ i = 1 \/ isLineTerminator(text[i - 1])
    /\ startsWith(SubSeq(text, i, lineEnd(text, i)), units(EofLine))
    /\ blank(SubSeq(text, i + Len(EofLine), lineEnd(text, i)))

\* where the first canonical end-of-file line starts, 0 when there is none
firstMarker(text) ==
    IF \E i \in 1..Len(text) : canonicalLineAt(text, i)
    THEN CHOOSE i \in 1..Len(text) :
            canonicalLineAt(text, i) /\ \A j \in 1..(i - 1) : ~canonicalLineAt(text, j)
    ELSE 0

\* the record type written on a line, NaN when the line has none
typeOnLine(l) ==
    IF startsWith(trim(l), units(":")) /\ Len(trim(l)) >= 9 THEN parseInt16(slice(trim(l), 7, 9))
    ELSE NaN

lengthOnLine(l) ==
    IF startsWith(trim(l), units(":")) /\ Len(trim(l)) >= 3 THEN parseInt16(slice(trim(l), 1, 3))
    ELSE NaN

\* the index of the first EndOfFile record among the lines, 0 when there is none
firstEofRecord(lines) ==
    IF \E k \in 1..Len(lines) : typeOnLine(lines[k]) = 1
    THEN CHOOSE k \in 1..Len(lines) :
            typeOnLine(lines[k]) = 1 /\ \A j \in 1..(k - 1) : typeOnLine(lines[j]) # 1
    ELSE 0

\* the session of these lines holds a Data record with at least one byte
sessionHasData(lines) ==
    \E k \in 1..Len(lines) :
        /\ typeOnLine(lines[k]) = 0
        /\ lengthOnLine(lines[k]) >= 1
        /\ \A j \in 1..(k - 1) : typeOnLine(lines[j]) # 1

\* C6: a non-blank line is accepted by the HEX decoder only if it starts with
\* ':', has exactly 10 + 2*length hex characters after it, and its bytes
\* (length, address, type, data, checksum) add up to 0 modulo 256, for every
\* record type and every declared length; so a valid line with one byte
\* changed is refused.
C6_AcceptedOnlyIfWellFormed ==
    (builtDone /\ fileName = "fw.hex" /\ oneLine(fileText) /\ ~blank(fileText) /\ accepted)
        => wellFormedRecord(trim(fileText))

\* C7: buildBlocks on a name ending in .ehex fails with the unsupported-format
\* error, and gives no blocks, for every device id that is not a
\* large-address id (0x0478, 0x0479), ids outside the table included.
C7_EhexOnlyOnLargeAddress ==
    (builtDone /\ ehexName /\ ~largeAddressId) => built = BuildUnsupported

\* C8: for dual-segment text with a canonical end-of-file line, mainBlocks is
\* the decode of the text through the first such line at offset 0x60000000 and
\* loaderBlocks the decode of the text after it at offset 0; a second session
\* with data gives a non-empty loaderBlocks and a blank remainder an empty one.
C8_SplitAtFirstMarker ==
    (dualDone /\ accepted /\ firstMarker(fileText) > 0) =>
        LET cut == lineEnd(fileText, firstMarker(fileText))
            rest == SubSeq(fileText, cut + 1, Len(fileText))
        IN  /\ built.mainBlocks
                 \in { r.blocks : r \in parseSingleHexSession(SubSeq(fileText, 1, cut),
                                                             FlashOffset) }
            /\ built.loaderBlocks \in { r.blocks : r \in parseSingleHexSession(rest, 0) }
            /\ blank(rest) => built.loaderBlocks = <<>>
            /\ sessionHasData(splitLines(rest, 1, 1)) => built.loaderBlocks # <<>>

\* C10: in one flashFirmware call the long pause (1500 ms) follows only the
\* first block transmitted in the whole operation; every later block,
\* including the first loader block after main blocks, is followed by 5 ms.
C10_LongPauseOnlyOnce ==
    \A j \in 1..Len(pauses) : pauses[j] = (IF j = 1 THEN 1500 ELSE 5)

\* C11: every data report is 1088 bytes: bytes 0..2 are the block address
\* modulo 2^24, little-endian, bytes 3..63 are zero and bytes 64..1087 are the
\* block's 1024 data bytes; the buffer is reused for all blocks of a set, yet
\* the j-th data report holds nothing but the j-th transmitted block.
C11_ReportLayout ==
    LET want == eligibleBlocks(mainBlocks, 1) \o eligibleBlocks(loaderBlocks, 1) IN
    \A j \in 1..Len(delivered) :
        isSentinel(delivered[j]) \/
            /\ Len(delivered[j]) = 1088
            /\ j <= Len(want)
            /\ delivered[j][1] + 256 * delivered[j][2] + 65536 * delivered[j][3]
                  = want[j].address % 16777216
            /\ SubSeq(delivered[j], 4, 64) = [i \in 1..61 |-> 0]
            /\ Len(want[j].data) = 1024
            /\ SubSeq(delivered[j], 65, 1088) = want[j].data

C11_Witness ==
    /\ succeeded
    /\ Len(delivered) = 5
    /\ delivered[2][2] = 4 /\ delivered[2][1088] = 2
    /\ delivered[3][2] = 8 /\ delivered[3][1088] = 3
    /\ delivered[4][3] = 32 /\ delivered[4][1088] = 1

----------------------------------------------------------------------------
(* Vocabulary of the properties about the serial manager *)

newlines(text) == { i \in 1..Len(text) : text[i] = 10 }

\* the position of the k-th '\n' of the text, 0 for k = 0
nthNewline(text, k) ==
    IF k = 0 THEN 0
    ELSE CHOOSE i \in newlines(text) :
            Cardinality({ j \in newlines(text) : j <= i }) = k

\* the text between the (k-1)-th and the k-th '\n'
lineBetween(text, k) == SubSeq(text, nthNewline(text, k - 1) + 1, nthNewline(text, k) - 1)

\* the text after the last '\n'
afterLastNewline(text) ==
    SubSeq(text, nthNewline(text, Cardinality(newlines(text))) + 1, Len(text))

\* a port is open
connectionOpen == \E p \in Ports : ports[p].state = "opened"

openCalled == calls' = calls + 1 /\ lastCall' = "open"
closeCalled == calls' = calls + 1 /\ lastCall' = "close"

\* C12: the consumer receives, in order and each once, the trimmed text
\* between consecutive '\n' of the concatenation of all chunks fed; the text
\* after the last '\n' is kept and not emitted; feed("AB"), feed("C\nDEF\n")
\* emits "ABC", "DEF" and leaves an empty buffer.
C12_LinesOnceInOrder ==
    /\ incompleteLine = afterLastNewline(fedText)
    /\ Len(received) <= Cardinality(newlines(fedText))
    /\ ~unheard =>
          /\ Len(received) = (IF onData THEN Cardinality(newlines(fedText)) ELSE 0)
          /\ \A k \in 1..Len(received) : received[k] = trim(lineBetween(fedText, k))
    /\ (fedText = units("ABC\nDEF\n") /\ ~unheard /\ onData)
          => (received = <<units("ABC"), units("DEF")>> /\ incompleteLine = <<>>)

C12_Witness ==
    /\ fedText = units("ABC\nDEF\n") /\ feeds = 2
    /\ received = <<units("ABC"), units("DEF")>>
    /\ incompleteLine = <<>>

C12_WitnessPartial ==
    /\ fedText = units(" x \r\n\nAB")
    /\ received = <<units("x"), <<>>>>
    /\ incompleteLine = units("AB")

\* C13: openSerial while a connection is open fails with the already-open
\* error, closeSerial while no connection is open fails with the not-open
\* error, both leaving port, reader and line buffer unchanged; after a
\* successful closeSerial a new openSerial is accepted.
C13_OpenAndCloseGuards ==
    [][/\ (openCalled /\ connectionOpen) =>
            /\ openCalls' = openCalls
            /\ \E c \in Callers :
                  /\ openCalls[c].pc = "idle"
                  /\ openResult' = [openResult EXCEPT ![c] = "alreadyOpen"]
            /\ UNCHANGED <<serialPort, serialReader, incompleteLine>>
       /\ (closeCalled /\ ~connectionOpen) =>
            /\ closeResult' = "notOpen"
            /\ closeCall' = closeCall
            /\ UNCHANGED <<serialPort, serialReader, incompleteLine>>
       /\ (closeCall.pc = "closing" /\ closeResult' = "ok") => serialPort' = 0
      ]_vars

\* C14: after closeSerial has returned successfully the read loop has ended,
\* the retained partial line is empty and the consumer is not called again
\* until a new connection is opened.
C14_QuietAfterClose ==
    closedQuiet =>
        /\ \A r \in Readers : readers[r].reads = 0
        /\ incompleteLine = <<>>
        /\ lateLines = 0

\* the block set is the page list buildBlocks makes of a raw-binary file
rawPages == Len(mainBlocks) > 0 /\ \A i \in 1..Len(mainBlocks) : ~mainBlocks[i].hasFields

\* C15: the pages buildBlocks returns for a raw-binary file are accepted by
\* flashFirmware: no internal error, and page i is transmitted with its 1024
\* bytes as payload at address i*1024 plus one fixed base.
C15_RawPagesAccepted ==
    rawPages =>
        /\ outcome # TypeError
        /\ succeeded =>
              \E base \in {0, MainBase} :
                 \A i \in 1..Len(mainBlocks) :
                    /\ i <= Len(delivered)
                    /\ SubSeq(delivered[i], 65, 1088) = mainBlocks[i].data
                    /\ delivered[i][1] + 256 * delivered[i][2] + 65536 * delivered[i][3]
                          = ((i - 1) * PAGE_SIZE + base) % 16777216

\* the file is neither .hex nor .ehex
binaryName ==
    /\ ~endsWith(toLowerCase(fileName), ".hex")
    /\ ~endsWith(toLowerCase(fileName), ".ehex")

\* the bytes of a page, whatever its shape
pageBytes(b) == b.data

\* C16: a raw-binary input of n bytes gives ceil(n/1024) blocks of exactly
\* 1024 bytes in input order, equal to the input below n and 0xFF from n on
\* (2500 bytes: 3 blocks, the third 0xFF from byte 452 on); loaderBlocks is
\* empty and an empty input gives zero blocks.
C16_BinarySplit ==
    (builtDone /\ binaryName) =>
        LET n == Len(fileData) IN
        /\ accepted
        /\ built.loaderBlocks = <<>>
        /\ Len(built.mainBlocks) = (n + 1023) \div 1024
        /\ \A j \in 1..Len(built.mainBlocks) :
              /\ Len(pageBytes(built.mainBlocks[j])) = 1024
              /\ \A k \in 1..1024 :
                    pageBytes(built.mainBlocks[j])[k] =
                        (IF (j - 1) * 1024 + k <= n THEN fileData[(j - 1) * 1024 + k] ELSE 255)
        /\ n = 2500 =>
              /\ Len(built.mainBlocks) = 3
              /\ SubSeq(pageBytes(built.mainBlocks[3]), 453, 1024) = [i \in 1..572 |-> 255]
              /\ SubSeq(pageBytes(built.mainBlocks[3]), 1, 452) = SubSeq(fileData, 2049, 2500)
        /\ n = 0 => built.mainBlocks = <<>>

C16_Witness ==
    /\ builtDone /\ binaryName /\ accepted
    /\ Len(fileData) = 2500
    /\ Len(built.mainBlocks) = 3
    /\ built.mainBlocks[3].data[452] = fileData[2500]
    /\ built.mainBlocks[3].data[453] = 255
    /\ fileData[2500] # 255

\* buildBlocks has run on a .hex file of these lines for this device id
sessionDone(lines, id) ==
    /\ builtDone
    /\ fileName = "fw.hex"
    /\ productId = id
    /\ fileText = units(joinLines(lines, 1))

\* the byte the block list holds for an absolute address, -1 when no block
\* covers it
byteAt(blocks, abs) ==
    LET at == { j \in 1..Len(blocks) : blocks[j].address = abs - (abs % 1024) } IN
    IF at = {} THEN -1
    ELSE blocks[CHOOSE j \in at : TRUE].data[(abs % 1024) + 1]

\* C17 as stated: ExtendedLinearAddress 0x0001 (base 0x00010000), then a Data
\* record at 0x0020, decoded at offset 0x60000000, puts the bytes at absolute
\* address 0x60010020, in the block with address 0x60010000 from byte 0x20 on.
C17_BaseLowAtFlashOffset ==
    sessionDone(<<ElaLow, DataA>>, 1144) =>
        /\ accepted
        /\ \E j \in 1..Len(built.mainBlocks) : built.mainBlocks[j].address = 1610678272
        /\ byteAt(built.mainBlocks, 1610678304) = 170
        /\ byteAt(built.mainBlocks, 1610678305) = 187

\* C17: at offset 0x60000000 the bytes are at absolute address 0x60010020 (the
\* block with address 0x60010000, from byte 0x20 on) when the address record
\* sets the base 0x60010000; with the base 0x00010000 the address
\* 0x00010020 - 0x60000000 is negative and the record leaves no block; at
\* offset 0 the base 0x00010000 puts the bytes at 0x00010020.
C17_LinearBasePlacement ==
    /\ sessionDone(<<ElaFlash, DataA>>, 1144) =>
          /\ accepted
          /\ Len(built.mainBlocks) = 1
          /\ built.mainBlocks[1].address = 1610678272
          /\ byteAt(built.mainBlocks, 1610678304) = 170
          /\ byteAt(built.mainBlocks, 1610678305) = 187
          /\ byteAt(built.mainBlocks, 1610678303) = 255
          /\ byteAt(built.mainBlocks, 1610678306) = 255
    /\ sessionDone(<<ElaLow, DataA>>, 1144) => (accepted /\ built.mainBlocks = <<>>)
    /\ sessionDone(<<ElaLow, DataA>>, 1155) =>
          /\ accepted
          /\ Len(built.mainBlocks) = 1
          /\ built.mainBlocks[1].address = 65536
          /\ byteAt(built.mainBlocks, 65568) = 170
          /\ byteAt(built.mainBlocks, 65569) = 187

C17_Witness ==
    /\ sessionDone(<<ElaFlash, DataA>>, 1144)
    /\ accepted
    /\ built.mainBlocks[1].address = 1610678272
    /\ built.mainBlocks[1].data[33] = 170
    /\ built.mainBlocks[1].data[34] = 187

\* the lines of the file and the offset of its device
fileLines == splitLines(fileText, 1, 1)
fileOffset == IF largeAddressId THEN 1610612736 ELSE 0

\* the fields written on a well-formed record
addressOnLine(l) ==
    pairValue(SubSeq(trim(l), 2, Len(trim(l))), 2) * 256 + pairValue(SubSeq(trim(l), 2, Len(trim(l))), 3)
wordOnLine(l) ==
    pairValue(SubSeq(trim(l), 2, Len(trim(l))), 5) * 256 + pairValue(SubSeq(trim(l), 2, Len(trim(l))), 6)

isAddressRecord(l) ==
    wellFormedRecord(trim(l)) /\ typeOnLine(l) \in {2, 4} /\ lengthOnLine(l) = 2

\* the last address record before line k, 0 when there is none
lastAddressRecord(lines, k) ==
    LET before == { j \in 1..(k - 1) : isAddressRecord(lines[j]) } IN
    IF before = {} THEN 0 ELSE CHOOSE x \in before : \A y \in before : y <= x

\* the address the format gives byte i of the Data record on line k, as the
\* number of its 1024-byte block and the position in that block: the rolling
\* base is word * 65536 after an ExtendedLinearAddress record, word * 16 after
\* an ExtendedSegmentAddress record
declaredBlock(lines, k, i) ==
    LET j == lastAddressRecord(lines, k) IN
    IF j = 0 THEN (addressOnLine(lines[k]) + i) \div 1024
    ELSE IF typeOnLine(lines[j]) = 4
    THEN wordOnLine(lines[j]) * 64 + (addressOnLine(lines[k]) + i) \div 1024
    ELSE (wordOnLine(lines[j]) * 16 + addressOnLine(lines[k]) + i) \div 1024

declaredPos(lines, k, i) ==
    LET j == lastAddressRecord(lines, k) IN
    IF j = 0 \/ typeOnLine(lines[j]) = 4 THEN (addressOnLine(lines[k]) + i) % 1024
    ELSE (wordOnLine(lines[j]) * 16 + addressOnLine(lines[k]) + i) % 1024

\* line k is a Data record the decoder comes to
dataRecordAt(lines, k) ==
    /\ wellFormedRecord(trim(lines[k]))
    /\ typeOnLine(lines[k]) = 0
    /\ \A j \in 1..(k - 1) : typeOnLine(lines[j]) # 1

removeLine(lines, k) == SubSeq(lines, 1, k - 1) \o SubSeq(lines, k + 1, Len(lines))

\* the text of these lines, a '\n' between them
RECURSIVE textOf(_, _)
textOf(lines, i) ==
    IF i > Len(lines) THEN <<>>
    ELSE lines[i] \o (IF i < Len(lines) THEN <<10>> ELSE <<>>) \o textOf(lines, i + 1)

\* the decode of these lines as the file's device decodes them
decodeLines(lines) ==
    { hexBlocks(r) : r \in parseSingleHexSession(textOf(lines, 1), fileOffset) }

\* C18: a Data record whose address base + recordAddress - offset is negative
\* raises no error, allocates no block and changes no byte: the result is
\* that of the same session without the record.
C18_NegativeAddressDropped ==
    (builtDone /\ fileName = "fw.hex") =>
        \A k \in 1..Len(fileLines) :
            (/\ dataRecordAt(fileLines, k)
             /\ declaredBlock(fileLines, k, 0) < fileOffset \div 1024)
            => /\ \E without \in decodeLines(removeLine(fileLines, k)) :
                     /\ built.status = without.status
                     /\ built.error = without.error
                     /\ built.mainBlocks = without.mainBlocks
               /\ (built.status = "error" => built.line # k)

C18_Witness ==
    /\ sessionDone(<<DataA, ElaFlash, DataB>>, 1144)
    /\ accepted
    /\ Len(built.mainBlocks) = 1
    /\ byteAt(built.mainBlocks, 1610678304) = 255
    /\ byteAt(built.mainBlocks, 1610678305) = 204

\* the lines the session consists of: through the first EndOfFile record, or
\* all of them
sessionEnd(lines) == IF firstEofRecord(lines) = 0 THEN Len(lines) ELSE firstEofRecord(lines)

malformedLine(l) == ~blank(l) /\ ~wellFormedRecord(trim(l))

\* a blank line or a well-formed record, an address record with its two bytes
validLine(l) ==
    \/ blank(l)
    \/ /\ wellFormedRecord(trim(l))
       /\ typeOnLine(l) \in {2, 4} => lengthOnLine(l) = 2

\* C19 without the part on malformed lines before the EndOfFile record: the
\* result of a session of valid lines is that of its lines through the
\* first EndOfFile record, whatever follows it, and that of all lines when
\* there is none.
stopsAtFirstEof ==
    (builtDone /\ fileName = "fw.hex") =>
        ((\A k \in 1..sessionEnd(fileLines) : validLine(fileLines[k]))
            => /\ accepted
               /\ built \in decodeLines(SubSeq(fileLines, 1, sessionEnd(fileLines))))

\* C19: decoding stops at the first EndOfFile record: no line after it changes
\* a block and a malformed line after it raises no error; a malformed or
\* checksum-invalid line before it aborts the decode with an error and no
\* block list; without an EndOfFile record the blocks of all lines are returned.
C19_StopAtFirstEofErrorsBefore ==
    /\ stopsAtFirstEof
    /\ (builtDone /\ fileName = "fw.hex") =>
          ((\E k \in 1..sessionEnd(fileLines) : malformedLine(fileLines[k]))
              => (built.status = "error" /\ built.mainBlocks = <<>>))

\* byte i (from 0) of the payload of the Data record on the line
payloadOnLine(l, i) == pairValue(SubSeq(trim(l), 2, Len(trim(l))), 5 + i)

\* the Data record on line k is decoded and its address is not below the offset
placedRecord(lines, k) ==
    /\ dataRecordAt(lines, k)
    /\ declaredBlock(lines, k, 0) >= fileOffset \div 1024

\* the Data record on line k has a byte for position pos of block blk
covers(lines, k, blk, pos) ==
    /\ placedRecord(lines, k)
    /\ \E i \in 0..(lengthOnLine(lines[k]) - 1) :
          declaredBlock(lines, k, i) = blk /\ declaredPos(lines, k, i) = pos

\* the byte the block list holds at position pos of the block with index
\* blk (address blk * 1024), -1 when it has no such block
byteOfBlock(blocks, blk, pos) ==
    LET at == { j \in 1..Len(blocks) :
                   /\ blocks[j].address # NaN
                   /\ blocks[j].address % 1024 = 0
                   /\ blocks[j].address \div 1024 = blk } IN
    IF at = {} THEN -1 ELSE blocks[CHOOSE j \in at : TRUE].data[pos + 1]

\* the positions of block blk some Data record of the lines has a byte for
written(lines, blk) ==
    UNION { { declaredPos(lines, k, i) :
                i \in { x \in 0..(lengthOnLine(lines[k]) - 1) : declaredBlock(lines, k, x) = blk } } :
            k \in { y \in 1..Len(lines) : placedRecord(lines, y) } }

\* C20 on the Data records of the lines up to line last
placement(lines, blocks, last) ==
    /\ \A k \in 1..last :
          placedRecord(lines, k) =>
             \A i \in 0..(lengthOnLine(lines[k]) - 1) :
                \/ \E k2 \in (k + 1)..Len(lines) :
                      covers(lines, k2, declaredBlock(lines, k, i), declaredPos(lines, k, i))
                \/ byteOfBlock(blocks, declaredBlock(lines, k, i), declaredPos(lines, k, i))
                      = payloadOnLine(lines[k], i)
    /\ \A j \in 1..Len(blocks) :
          blocks[j].address # NaN =>
             \A pos \in (0..1023) \ written(lines, blocks[j].address \div 1024) :
                blocks[j].data[pos + 1] = 255

\* C20: byte d[i] of a Data record whose address a = base + recordAddress -
\* offset is not negative is at position (a+i) mod 1024 of the block with
\* index floor((a+i)/1024), across block boundaries too; a byte of an
\* allocated block that no record wrote is 0xFF; a later record overwrites an
\* earlier one; a buffer encoded as a Data record is decoded to the same
\* bytes at the same address.
C20_BytePlacement ==
    (builtDone /\ fileName = "fw.hex" /\ accepted
        /\ \A k \in 1..Len(fileLines) : validLine(fileLines[k]))
    => placement(fileLines, built.mainBlocks, Len(fileLines))

\* the block indices (address / 1024) the Data records of the lines have a
\* byte for
writtenBlocks(lines) ==
    UNION { { declaredBlock(lines, k, i) : i \in 0..(lengthOnLine(lines[k]) - 1) } :
            k \in { y \in 1..Len(lines) : placedRecord(lines, y) } }

\* the block list of a session at this offset: 1024-byte blocks at multiples
\* of 1024 from the offset on, strictly ascending, one for each index in want
blockListFor(blocks, offset, want) ==
    /\ \A j \in 1..Len(blocks) :
          /\ Len(blocks[j].data) = 1024
          /\ blocks[j].address # NaN
          /\ blocks[j].address % 1024 = 0
          /\ blocks[j].address >= offset
    /\ \A j \in 1..(Len(blocks) - 1) : blocks[j].address < blocks[j + 1].address
    /\ { blocks[j].address \div 1024 : j \in 1..Len(blocks) } = want

\* C21: for valid HEX records and a block-aligned offset the block list holds
\* only 1024-byte blocks whose address is a multiple of 1024 and equals
\* offset + blockIndex * 1024, in strictly ascending order without duplicates,
\* and a block exactly for each block index an in-range Data record wrote to.
C21_BlockListShape ==
    (builtDone /\ fileName = "fw.hex" /\ accepted
        /\ \A k \in 1..Len(fileLines) : validLine(fileLines[k]))
    => blockListFor(built.mainBlocks, fileOffset, writtenBlocks(fileLines))

\* C9: for dual-segment text without a canonical end-of-file line the text is
\* not refused for lacking it, loaderBlocks is empty and the whole text is the
\* primary session, decoded at offset 0x60000000: every in-range Data record
\* of the session (the session ends at the first EndOfFile record the decoder
\* reads, in any spelling) has its bytes in mainBlocks.
C9_WholeTextIsPrimarySession ==
    (dualDone /\ firstMarker(fileText) = 0) =>
        /\ (\A k \in 1..sessionEnd(fileLines) : validLine(fileLines[k])) =>
              /\ accepted
              /\ placement(fileLines, built.mainBlocks, Len(fileLines))
        /\ accepted => built.loaderBlocks = <<>>

\* C22: an ExtendedLinearAddress record with the word H sets the rolling base
\* to H * 65536 as an unsigned 32-bit address and an ExtendedSegmentAddress
\* record to H * 16, for every H in 0..0xFFFF, so at offset 0 the bytes of a
\* following Data record at address A are at H * 65536 + A (H * 16 + A); a
\* later address record replaces the base.
C22_AddressRecordsSetTheBase ==
    (builtDone /\ fileName = "fw.hex" /\ fileOffset = 0 /\ accepted
        /\ \A k \in 1..Len(fileLines) : validLine(fileLines[k]))
    => \A k \in 1..Len(fileLines) :
          (dataRecordAt(fileLines, k) /\ lastAddressRecord(fileLines, k) # 0) =>
             \A i \in 0..(lengthOnLine(fileLines[k]) - 1) :
                \/ \E k2 \in (k + 1)..Len(fileLines) :
                      covers(fileLines, k2, declaredBlock(fileLines, k, i),
                             declaredPos(fileLines, k, i))
                \/ byteOfBlock(built.mainBlocks, declaredBlock(fileLines, k, i),
                               declaredPos(fileLines, k, i))
                      = payloadOnLine(fileLines[k], i)

\* the first call is between its open() and the end of its finally clause
inProgress == pc \in {"begin", "send", "retry", "pause", "close"}

\* C23: when device.open() fails (the handle is open for a flashFirmware call
\* still in progress) the call passes the error through, sends no report,
\* invokes no progress callback and does not call device.close(); the call
\* that is running on the handle is not interrupted.
C23_OpenFailurePassesThrough ==
    /\ [](outcome = OpenError =>
            (finished /\ delivered = <<>> /\ progress = <<>> /\ closeCalls = 0 /\ ~opened))
    /\ [][otherOutcome' # otherOutcome =>
            /\ otherOutcome' = OpenError
            /\ UNCHANGED <<mainBlocks, loaderBlocks, pc, stage, needed, idx, attempt,
                           sentCount, report, doneCount, totalNeeded, delivered, progress,
                           pauses, opened, closeCalls, closeRejected, pending, outcome>>]_vars
    /\ []((otherOutcome = OpenError /\ inProgress) => (opened /\ closeCalls = 0))
    /\ []((otherOutcome = OpenError /\ pc = "closing") => (opened /\ closeCalls = 1))
    /\ []((otherOutcome = OpenError /\ finished) => closeCalls = 1)

C23_Witness ==
    /\ otherOutcome = OpenError
    /\ succeeded
    /\ closeCalls = 1
    /\ Len(delivered) = 3
    /\ isSentinel(delivered[3])
    /\ Len(progress) = 2

C23_WitnessLoneCall ==
    outcome = OpenError /\ finished /\ closeCalls = 0 /\ delivered = <<>>

\* C24: flashFirmware completes successfully only if the sentinel report was
\* delivered; when all 5 attempts to send it fail, the call fails, after
\* closing the device.
C24_SuccessOnlyWithSentinel ==
    /\ succeeded => (Len(delivered) > 0 /\ isSentinel(delivered[Len(delivered)]))
    /\ (finished /\ outcome # OpenError /\ sentinelsDelivered = 0) =>
          (outcome # Resolved /\ closeCalls = 1)

\* no openSerialPort or closeSerialPort call is in progress
noCallInProgress ==
    /\ \A c \in Callers : openCalls[c].pc = "idle"
    /\ closeCall.pc = "idle"

\* the last call made was an openSerialPort that failed, and no port is open
failedOpen ==
    /\ noCallInProgress
    /\ lastCall = "open"
    /\ \E c \in Callers : openResult[c] = "error"
    /\ ~connectionOpen

\* C25: when openSerial has failed after the port was chosen (open() of the
\* port rejected), the manager is in the not-open state: a later openSerial is
\* not refused as already open, and closeSerial reports the not-open error.
C25_FailedOpenLeavesNotOpen ==
    [][/\ (failedOpen /\ openCalled) =>
            \E c \in Callers : /\ openCalls'[c].pc = "request"
                               /\ openResult'[c] = "pending"
       /\ (failedOpen /\ closeCalled) =>
            /\ closeResult' = "notOpen"
            /\ closeCall' = closeCall
      ]_vars

portsHeld == { p \in Ports : ports[p].state \in {"opened", "closing"} }
\* the read loops that wait for a read(), as <<reader, k>>
loopsRunning == { rk \in Readers \X (1..MaxCalls) : rk[2] <= readers[rk[1]].reads }
openInProgress == \E c \in Callers : openCalls[c].pc # "idle"

\* at most one port is held and at most one read loop is running
oneConnection == Cardinality(portsHeld) <= 1 /\ Cardinality(loopsRunning) <= 1

\* C26: two overlapping openSerial calls never both succeed: at any time at
\* most one port is held and at most one read loop is running, and a call
\* that starts while another openSerial is in progress fails with the
\* already-open error.
C26_OverlappingOpensExcluded ==
    /\ []oneConnection
    /\ [][(openInProgress /\ openCalled) =>
            /\ openCalls' = openCalls
            /\ \E c \in Callers :
                  /\ openCalls[c].pc = "idle"
                  /\ openResult' = [openResult EXCEPT ![c] = "alreadyOpen"]]_vars

====
